---------------------------- MODULE Spec2Model ----------------------------
(***************************************************************************)
(* A model of cmux, an HTTP router (package cmux).                         *)
(*                                                                         *)
(* The router is a trie of Mux nodes.  mkRoute (reached through            *)
(* Mux.HandleFunc) extends the trie from a path pattern; matchDir walks    *)
(* the trie for a request path with backtracking and a served-directory    *)
(* fallback; ServeHTTP binds the captured path variables into a fresh      *)
(* copy of the node's metadata bytes and dispatches on the HTTP method.    *)
(*                                                                         *)
(* Text is modelled as a sequence of one-character strings, so that the    *)
(* string functions the code uses (Split, Cut, HasPrefix, HasSuffix,       *)
(* slicing, ParseInt/ParseUint) are computed, not assumed.  Memory is      *)
(* modelled at byte granularity on a 64-bit little-endian build: an        *)
(* object is a sequence of bytes, a byte of a value v is the record        *)
(* [v |-> v, i |-> its index in v's representation].                       *)
(***************************************************************************)
EXTENDS Integers, Sequences, FiniteSets, TLC

VARIABLES
    nodes,      \* the trie: node id (path of edges from the root) -> Mux fields
    heap,       \* object id -> bytes (callers' metadata objects, request buffers)
    nreg,       \* number of HandleFunc calls made so far
    fatal,      \* the process has exited through log.Fatal* (or panicked)
    Before,     \* Mux.Before of the root mux is set (non-nil)
    resp,       \* per worker: the outcome of its last ServeHTTP call
    regs,       \* history: the HandleFunc calls made, in order
    pin,        \* the case drawn by the specifications of a single pattern
    run,        \* the mux's RWMutex and the calls that are under way
    mdTypeMap   \* the package's cache: metadata type -> descriptor table

vars == <<nodes, heap, nreg, fatal, Before, resp, regs, pin, run, mdTypeMap>>

\* Absent values (Go's nil), one per shape of value so that TLC can compare
\* them with the values they stand in for.
Nil     == [nil |-> TRUE]            \* a nil record, map or interface
NilNode == << <<"nil", <<>>>> >>     \* a nil *Mux
NilObj  == <<"nil", 0>>              \* a nil pointer to an object
NilType == << [nil |-> TRUE] >>      \* a nil reflect.Type

(***************************************************************************)
(* Text helpers (package strings).                                         *)
(***************************************************************************)

\* s[from+1 .. to] in Go's s[from:to] (0-based, half-open)
Slice(s, from, to) == SubSeq(s, from + 1, to)

HasPrefix(s, p) ==
    /\ Len(s) >= Len(p)
    /\ SubSeq(s, 1, Len(p)) = p

HasSuffix(s, p) ==
    /\ Len(s) >= Len(p)
    /\ SubSeq(s, Len(s) - Len(p) + 1, Len(s)) = p

Contains(s, c) == \E i \in 1..Len(s) : s[i] = c

\* index (1-based) of the first occurrence of character c in s, 0 if none
IndexOf(s, c) ==
    IF Contains(s, c)
    THEN CHOOSE i \in 1..Len(s) : s[i] = c /\ \A j \in 1..(i-1) : s[j] # c
    ELSE 0

\* strings.Cut(s, sep) for a one-character separator
Cut(s, c) ==
    LET i == IndexOf(s, c)
    IN  IF i = 0
        THEN [before |-> s, after |-> <<>>, found |-> FALSE]
        ELSE [before |-> SubSeq(s, 1, i - 1),
              after  |-> SubSeq(s, i + 1, Len(s)),
              found  |-> TRUE]

\* strings.Split(s, sep) for a one-character separator: always at least one element
RECURSIVE Split(_, _)
Split(s, c) ==
    LET r == Cut(s, c)
    IN  IF r.found THEN <<r.before>> \o Split(r.after, c) ELSE <<s>>

UpperCase == {"A", "B", "C", "X", "Y", "N", "V", "W"}
LowerOf(c) ==
    CASE c = "A" -> "a"
      [] c = "B" -> "b"
      [] c = "C" -> "c"
      [] c = "X" -> "x"
      [] c = "Y" -> "y"
      [] c = "N" -> "n"
      [] c = "V" -> "v"
      [] c = "W" -> "w"
      [] OTHER   -> c

\* strings.ToLower
ToLower(s) == [i \in 1..Len(s) |-> LowerOf(s[i])]

(***************************************************************************)
(* Value parsers (strconv.ParseUint / strconv.ParseInt, base 10).          *)
(* A number is [kind |-> "int", neg, mag]: mag is the canonical sequence   *)
(* of decimal digits (no leading zero but for 0 itself), so that 64-bit    *)
(* values are exact although TLC's integers are 32-bit.                    *)
(***************************************************************************)

Digits == {"0", "1", "2", "3", "4", "5", "6", "7", "8", "9"}

DigitVal(c) ==
    CASE c = "0" -> 0 [] c = "1" -> 1 [] c = "2" -> 2 [] c = "3" -> 3
      [] c = "4" -> 4 [] c = "5" -> 5 [] c = "6" -> 6 [] c = "7" -> 7
      [] c = "8" -> 8 [] c = "9" -> 9

RECURSIVE StripZeros(_)
StripZeros(ds) ==
    IF Len(ds) > 1 /\ ds[1] = 0 THEN StripZeros(Tail(ds)) ELSE ds

\* a <= b for canonical magnitudes
RECURSIVE LexLeq(_, _)
LexLeq(a, b) ==
    IF a = <<>> THEN TRUE
    ELSE IF a[1] # b[1] THEN a[1] < b[1]
    ELSE LexLeq(Tail(a), Tail(b))

MagLeq(a, b) ==
    \/ Len(a) < Len(b)
    \/ Len(a) = Len(b) /\ LexLeq(a, b)

\* 2^bits - 1 and 2^(bits-1), as magnitudes
MaxUintMag(bits) ==
    CASE bits = 8  -> <<2,5,5>>
      [] bits = 16 -> <<6,5,5,3,5>>
      [] bits = 32 -> <<4,2,9,4,9,6,7,2,9,5>>
      [] bits = 64 -> <<1,8,4,4,6,7,4,4,0,7,3,7,0,9,5,5,1,6,1,5>>

CutoffMag(bits) ==
    CASE bits = 8  -> <<1,2,8>>
      [] bits = 16 -> <<3,2,7,6,8>>
      [] bits = 32 -> <<2,1,4,7,4,8,3,6,4,8>>
      [] bits = 64 -> <<9,2,2,3,3,7,2,0,3,6,8,5,4,7,7,5,8,0,8>>

\* strconv.IntSize on the modelled build
IntSize == 64

EffBits(bitSize) == IF bitSize = 0 THEN IntSize ELSE bitSize

ParseErr == [err |-> TRUE]

IntVal(neg, mag) == [kind |-> "int", neg |-> (neg /\ mag # <<0>>), mag |-> mag]
StrVal(text) == [kind |-> "string", text |-> text]

\* strconv.ParseUint(str, 10, bitSize): no sign, digits only, value <= 2^bitSize-1
ParseUint(str, bitSize) ==
    IF str = <<>> \/ \E i \in 1..Len(str) : str[i] \notin Digits
    THEN ParseErr
    ELSE LET mag == StripZeros([i \in 1..Len(str) |-> DigitVal(str[i])])
         IN  IF MagLeq(mag, MaxUintMag(EffBits(bitSize)))
             THEN [err |-> FALSE, val |-> IntVal(FALSE, mag)]
             ELSE ParseErr

\* strconv.ParseInt(str, 10, bitSize): optional sign, then an unsigned
\* number; un < 2^(bitSize-1), or un <= 2^(bitSize-1) when negative
ParseInt(str, bitSize) ==
    IF str = <<>> THEN ParseErr
    ELSE LET neg  == str[1] = "-"
             body == IF str[1] \in {"+", "-"} THEN Tail(str) ELSE str
             un   == ParseUint(body, 64)
             cut  == CutoffMag(EffBits(bitSize))
         IN  IF un.err THEN ParseErr
             ELSE IF ~neg /\ MagLeq(cut, un.val.mag) THEN ParseErr
             ELSE IF neg /\ ~MagLeq(un.val.mag, cut) THEN ParseErr
             ELSE [err |-> FALSE, val |-> IntVal(neg, un.val.mag)]

\* parseString: never fails, the text verbatim
parseString(str) == [err |-> FALSE, val |-> StrVal(str)]

\* getParseInt(bitSize)(str)
getParseInt(bitSize, str) == ParseInt(str, bitSize)

\* getParseUint that passes 64 for every width
getParseUint_NoWidth(bitSize, str) == ParseUint(str, 64)

\* getParseUint(bitSize)(str)
getParseUint(bitSize, str) == ParseUint(str, bitSize)


(***************************************************************************)
(* Metadata types (reflect) and parseStruct.                               *)
(* A struct type is the sequence of its visible fields,                    *)
(* [Name, Tag, Kind]; Tag is the value of the field's `cmux` tag, <<>>     *)
(* when it has none.                                                       *)
(***************************************************************************)

UintKinds == {"uint", "uint64", "uint32", "uint16", "uint8"}
IntKinds  == {"int", "int64", "int32", "int16", "int8"}
SupportedKinds == {"string"} \cup UintKinds \cup IntKinds

\* reflect.Type.Size() of a field kind, in bytes
KindSize(k) ==
    CASE k = "string" -> 16
      [] k \in {"uint", "uint64", "int", "int64"} -> 8
      [] k \in {"uint32", "int32"} -> 4
      [] k \in {"uint16", "int16"} -> 2
      [] k \in {"uint8", "int8", "bool"} -> 1

KindAlign(k) == IF KindSize(k) > 8 THEN 8 ELSE KindSize(k)

\* the width handed to strconv for an integer kind (parseStruct's switch)
KindBits(k) ==
    CASE k \in {"uint", "int"} -> 0
      [] k \in {"uint64", "int64"} -> 64
      [] k \in {"uint32", "int32"} -> 32
      [] k \in {"uint16", "int16"} -> 16
      [] k \in {"uint8", "int8"} -> 8

AlignUp(n, a) == ((n + a - 1) \div a) * a

\* reflect.StructField.Offset of the i-th field (Go's struct layout)
RECURSIVE FieldOffset(_, _)
FieldOffset(T, i) ==
    IF i = 1 THEN 0
    ELSE AlignUp(FieldOffset(T, i - 1) + KindSize(T[i - 1].Kind), KindAlign(T[i].Kind))

MaxAlign(T) ==
    IF T = <<>> THEN 1
    ELSE LET as == {KindAlign(T[i].Kind) : i \in 1..Len(T)}
         IN  CHOOSE a \in as : \A b \in as : b <= a

\* reflect.Type.Size() of the struct
TypeSize(T) ==
    IF T = <<>> THEN 0
    ELSE AlignUp(FieldOffset(T, Len(T)) + KindSize(T[Len(T)].Kind), MaxAlign(T))

\* the path-variable name of a field: its tag, else its lower-cased name
FieldTag(f) == IF f.Tag # <<>> THEN f.Tag ELSE ToLower(f.Name)

\* a field parseStruct skips: tag "-", or neither tag nor name
FieldSkipped(f) == f.Tag = <<"-">> \/ FieldTag(f) = <<>>

\* the parser parseStruct selects for a kind
KindFn(k) ==
    IF k = "string" THEN [name |-> "parseString", bits |-> 0]
    ELSE IF k \in UintKinds THEN [name |-> "getParseUint", bits |-> KindBits(k)]
    ELSE [name |-> "getParseInt", bits |-> KindBits(k)]

\* pathFieldParser.Fn(str)
ApplyFn(fn, str) ==
    CASE fn.name = "parseString"  -> parseString(str)
      [] fn.name = "getParseUint" -> getParseUint(fn.bits, str)
      [] fn.name = "getParseInt"  -> getParseInt(fn.bits, str)

\* indices of the fields that take part in the descriptor table
TableFields(T) == {i \in 1..Len(T) : ~FieldSkipped(T[i])}

\* parseStruct that enters the fields tagged "-" under their lower-cased name
parseStruct_NoSkip(T) ==
    [fatal |-> FALSE,
     map |-> [tag \in {IF T[i].Tag = <<"-">> THEN ToLower(T[i].Name) ELSE FieldTag(T[i]) :
                          i \in 1..Len(T)} |->
                LET i == CHOOSE j \in 1..Len(T) :
                            tag = IF T[j].Tag = <<"-">> THEN ToLower(T[j].Name)
                                  ELSE FieldTag(T[j])
                IN  [Fn     |-> KindFn(T[i].Kind),
                     Type   |-> NilType,
                     Offset |-> FieldOffset(T, i),
                     Size   |-> KindSize(T[i].Kind)]]]

\* parseStruct(md): log.Fatalln on an unsupported kind or on two fields with
\* one variable name; else tag -> pathFieldParser.  Type is never set.
parseStruct(T) ==
    LET fs == TableFields(T)
    IN  IF \/ \E i \in fs : T[i].Kind \notin SupportedKinds
           \/ \E i, j \in fs : i # j /\ FieldTag(T[i]) = FieldTag(T[j])
        THEN [fatal |-> TRUE, map |-> <<>>]
        ELSE [fatal |-> FALSE,
              map |-> [tag \in {FieldTag(T[i]) : i \in fs} |->
                         LET i == CHOOSE j \in fs : FieldTag(T[j]) = tag
                         IN  [Fn     |-> KindFn(T[i].Kind),
                              Type   |-> NilType,
                              Offset |-> FieldOffset(T, i),
                              Size   |-> KindSize(T[i].Kind)]]]

(***************************************************************************)
(* Memory.                                                                 *)
(***************************************************************************)

PadByte == [v |-> [kind |-> "pad"], i |-> 0]

\* the first `size` bytes of v's representation (a string header, or the
\* 64-bit integer strconv returned, low byte first)
ValueBytes(v, size) == [j \in 1..size |-> [v |-> v, i |-> j - 1]]

\* whether number v is representable in integer kind k
Fits(v, k) ==
    /\ v.kind = "int"
    /\ IF k \in UintKinds
       THEN ~v.neg /\ MagLeq(v.mag, MaxUintMag(EffBits(KindBits(k))))
       ELSE IF v.neg THEN MagLeq(v.mag, CutoffMag(EffBits(KindBits(k))))
            ELSE v.mag # CutoffMag(EffBits(KindBits(k)))
                 /\ MagLeq(v.mag, CutoffMag(EffBits(KindBits(k))))

Garbage == [kind |-> "garbage"]

\* the value a field of kind k at `off` holds in `bytes`
ReadField(bytes, off, k) ==
    LET size == KindSize(k)
    IN  IF off + size > Len(bytes) THEN Garbage
        ELSE LET b == [j \in 1..size |-> bytes[off + j]]
             IN  IF /\ b[1] # PadByte
                    /\ \A j \in 1..size : b[j] = [v |-> b[1].v, i |-> j - 1]
                    /\ IF k = "string" THEN b[1].v.kind = "string"
                       ELSE Fits(b[1].v, k)
                 THEN b[1].v
                 ELSE Garbage

\* the zero value of a kind
ZeroOf(k) == IF k = "string" THEN StrVal(<<>>) ELSE IntVal(FALSE, <<0>>)

\* the bytes of a struct of type T whose i-th field holds vals[i]
StructBytes(T, vals) ==
    [b \in 1..TypeSize(T) |->
        IF \E i \in 1..Len(T) :
              b - 1 >= FieldOffset(T, i) /\ b - 1 < FieldOffset(T, i) + KindSize(T[i].Kind)
        THEN LET i == CHOOSE j \in 1..Len(T) :
                        b - 1 >= FieldOffset(T, j)
                        /\ b - 1 < FieldOffset(T, j) + KindSize(T[j].Kind)
             IN  [v |-> vals[i], i |-> b - 1 - FieldOffset(T, i)]
        ELSE PadByte]

\* copy(dst[off : off+size], src): the bytes that fall inside dst
WriteBytes(dst, off, src) ==
    [b \in 1..Len(dst) |->
        IF b - 1 >= off /\ b - 1 < off + Len(src) THEN src[b - off] ELSE dst[b]]

(***************************************************************************)
(* The trie.                                                               *)
(* A node is named by the edges that lead to it from the root: <<"m", dir>>*)
(* for the literal child mux.m[dir], <<"p", i>> for the child of           *)
(* mux.matchers[i] (1-based).  A node never moves and is never removed.    *)
(* `route` is a history field, read by no operation: the registration that *)
(* last ended at the node.  So are `tmpl` (the template bytes the request  *)
(* copied) and `at` (the number of registrations made before it) of a      *)
(* response.                                                               *)
(***************************************************************************)

Root == <<>>

NilSlice == [obj |-> NilObj, len |-> 0]

\* &Mux{parent: mux, m: map[string]*Mux{}}
NewMux ==
    [methodHandlers |-> Nil,
     metadata       |-> NilObj,
     metadataRaw    |-> NilSlice,
     metadataType   |-> NilType,
     servesDir      |-> FALSE,
     m              |-> {},
     matchers       |-> <<>>,
     route          |-> Nil]

LitChild(n, dir) == Append(n, <<"m", dir>>)
PatChild(n, i)   == Append(n, <<"p", i>>)

\* a loop that finds no matcher, so that every variable segment appends one
FindMatcherIdx_Append(ms, matcher) == Len(ms)

\* the value of mIdx after the loop of mkRoute over mux.matchers (0-based):
\* the index of the first structurally identical matcher, else the index the
\* range loop assigned last
FindMatcherIdx(ms, matcher) ==
    LET same(i) == /\ ms[i].Prefix = matcher.Prefix
                   /\ ms[i].Suffix = matcher.Suffix
                   /\ ms[i].FieldParser.Type = matcher.FieldParser.Type
                   /\ ms[i].Label = matcher.Label
                   /\ ms[i].Size = matcher.Size
    IN  IF ms = <<>> THEN 0
        ELSE IF \E i \in 1..Len(ms) : same(i)
        THEN (CHOOSE i \in 1..Len(ms) : same(i) /\ \A j \in 1..(i-1) : ~same(j)) - 1
        ELSE Len(ms) - 1

\* the trie with a new child `child` under node mux, which becomes `parent`
AddChild(t, mux, parent, child) ==
    [n \in DOMAIN t \cup {child} |->
        IF n = child THEN NewMux ELSE IF n = mux THEN parent ELSE t[n]]

\* the fmtMatcher mkRoute builds for a variable segment
NewMatcher(prefix, label, suffix, p) ==
    [Prefix |-> prefix, Suffix |-> suffix, FieldParser |-> p,
     Label |-> label, Size |-> p.Size]

\* a step of the loop of mkRoute: [fatal] when the segment is rejected, else
\* the trie and the node to go on from.  c1 and c2 are the two strings.Cut of
\* the segment, pm what parseStruct returned (read only for a variable).
SegmentStep(t, mux, dir, c1, c2, md, pm) ==
    IF Contains(c1.before, "}") THEN [fatal |-> TRUE, t |-> t, mux |-> mux]
    ELSE IF c1.found THEN
        IF \/ ~c2.found
           \/ Contains(c2.before, "{")
           \/ md = Nil
        THEN [fatal |-> TRUE, t |-> t, mux |-> mux]
        ELSE IF pm.fatal THEN [fatal |-> TRUE, t |-> t, mux |-> mux]
        ELSE IF c2.before \notin DOMAIN pm.map THEN [fatal |-> TRUE, t |-> t, mux |-> mux]
        ELSE IF FindMatcherIdx(t[mux].matchers,
                               NewMatcher(c1.before, c2.before, c2.after, pm.map[c2.before]))
                < Len(t[mux].matchers)
        THEN [fatal |-> FALSE, t |-> t,
              mux |-> PatChild(mux, 1 + FindMatcherIdx(t[mux].matchers,
                          NewMatcher(c1.before, c2.before, c2.after, pm.map[c2.before])))]
        ELSE [fatal |-> FALSE,
              t |-> AddChild(t, mux,
                        [t[mux] EXCEPT !.matchers =
                            Append(@, NewMatcher(c1.before, c2.before, c2.after,
                                                 pm.map[c2.before]))],
                        PatChild(mux, Len(t[mux].matchers) + 1)),
              mux |-> PatChild(mux, Len(t[mux].matchers) + 1)]
    ELSE IF dir = <<>> THEN [fatal |-> TRUE, t |-> t, mux |-> mux]
    ELSE IF dir \in t[mux].m
    THEN [fatal |-> FALSE, t |-> t, mux |-> LitChild(mux, dir)]
    ELSE [fatal |-> FALSE,
          t |-> AddChild(t, mux, [t[mux] EXCEPT !.m = @ \cup {dir}], LitChild(mux, dir)),
          mux |-> LitChild(mux, dir)]

\* the loop of mkRoute over the segments, from the state st = [fatal, t, mux]:
\* the trie after it, the node it ends at, and whether it ended in
\* log.Fatal*.  md is Nil or [obj, type].
RECURSIVE mkRouteWalk(_, _, _)
mkRouteWalk(st, dirs, md) ==
    IF st.fatal \/ dirs = <<>> THEN st
    ELSE mkRouteWalk(
            SegmentStep(st.t, st.mux, Head(dirs),
                        Cut(Head(dirs), "{"),
                        Cut(Cut(Head(dirs), "{").after, "}"),
                        md,
                        IF md = Nil THEN [fatal |-> TRUE, map |-> <<>>]
                        ELSE parseStruct(md.type)),
            Tail(dirs), md)

\* lines 208-214 of mkRoute: the terminal node takes the registration
\* a terminal node that keeps the handlers it had for the methods the new
\* registration has none for
Attach_Merge(node, servesDir, md, methodHandlers, path, reg) ==
    [node EXCEPT
        !.servesDir      = servesDir,
        !.metadata       = IF md = Nil THEN NilObj ELSE md.obj,
        !.metadataType   = IF md = Nil THEN @ ELSE md.type,
        !.metadataRaw    = IF md = Nil THEN @
                           ELSE [obj |-> md.obj, len |-> TypeSize(md.type)],
        !.methodHandlers = IF @ = Nil THEN methodHandlers
                           ELSE [m \in DOMAIN @ \cup DOMAIN methodHandlers |->
                                    IF m \in DOMAIN methodHandlers
                                    THEN methodHandlers[m] ELSE @[m]],
        !.route          = [path |-> path, reg |-> reg]]

\* a terminal node that stays a directory root once it was one
Attach_KeepDir(node, servesDir, md, methodHandlers, path, reg) ==
    [node EXCEPT
        !.servesDir      = @ \/ servesDir,
        !.metadata       = IF md = Nil THEN NilObj ELSE md.obj,
        !.metadataType   = IF md = Nil THEN @ ELSE md.type,
        !.metadataRaw    = IF md = Nil THEN @
                           ELSE [obj |-> md.obj, len |-> TypeSize(md.type)],
        !.methodHandlers = methodHandlers,
        !.route          = [path |-> path, reg |-> reg]]

Attach(node, servesDir, md, methodHandlers, path, reg) ==
    [node EXCEPT
        !.servesDir      = servesDir,
        !.metadata       = IF md = Nil THEN NilObj ELSE md.obj,
        !.metadataType   = IF md = Nil THEN @ ELSE md.type,
        !.metadataRaw    = IF md = Nil THEN @
                           ELSE [obj |-> md.obj, len |-> TypeSize(md.type)],
        !.methodHandlers = methodHandlers,
        !.route          = [path |-> path, reg |-> reg]]

\* mkRoute from the split path on: all = strings.Split(path, "/")[1:]
mkRouteDirs(t, all, md, methodHandlers, path, reg, w) ==
    IF w.fatal THEN [t |-> w.t, fatal |-> TRUE]
    ELSE [fatal |-> FALSE,
          t |-> [w.t EXCEPT ![w.mux] =
                    Attach(@, all[Len(all)] = <<>>, md, methodHandlers, path, reg)]]

\* the segments mkRoute walks: without the empty one a trailing slash leaves
WalkedDirs(all) ==
    IF all[Len(all)] = <<>> THEN SubSeq(all, 1, Len(all) - 1) ELSE all

\* mkRoute(path, metadata, methodHandlers) on trie t: [t, fatal].
\* An empty path panics at path[0]; both ways the process is gone.
mkRoute(t, path, md, methodHandlers, reg) ==
    IF path = <<>> THEN [t |-> t, fatal |-> TRUE]
    ELSE IF path[1] # "/" THEN [t |-> t, fatal |-> TRUE]
    ELSE mkRouteDirs(t, Tail(Split(path, "/")), md, methodHandlers, path, reg,
                     mkRouteWalk([fatal |-> FALSE, t |-> t, mux |-> Root],
                                 WalkedDirs(Tail(Split(path, "/"))), md))

(***************************************************************************)
(* Matching.                                                               *)
(***************************************************************************)

\* the test with the suffix looked for in the whole segment
Qualifies_Overlap(dir, prefix, suffix) ==
    HasPrefix(dir, prefix) /\ HasSuffix(dir, suffix)

\* the test of matchDir on one matcher: prefix, then suffix of the rest
Qualifies(dir, prefix, suffix) ==
    /\ HasPrefix(dir, prefix)
    /\ HasSuffix(Slice(dir, Len(prefix), Len(dir)), suffix)

\* dir[len(prefix) : len(dir)-len(suffix)]
Captured(dir, prefix, suffix) == Slice(dir, Len(prefix), Len(dir) - Len(suffix))

NoMatch == [match |-> NilNode, fallback |-> NilNode, patches |-> <<>>]

\* a directory that is the fallback whatever was found below it
UsesOwn_Always(fallback, servesDir) == servesDir

\* line 369 of matchDir: fallback == nil && mux.servesDir
UsesOwn(fallback, servesDir) == fallback = NilNode /\ servesDir

\* a directory that answers with the patches of the branches given up
OwnFallback_KeepPatches(mux, fbPatches) ==
    [match |-> NilNode, fallback |-> mux, patches |-> fbPatches]

\* lines 369-371 of matchDir: the node itself as the fallback, with no patch
OwnFallback(mux, fbPatches) ==
    [match |-> NilNode, fallback |-> mux, patches |-> <<>>]

\* matchDirFrom is the body of matchDir(dirs) on node mux of trie t, entered
\* at its top (i = 0) or at the i-th turn of its loop over mux.matchers with
\* the fallback found so far; the result is [match, fallback, patches].  A
\* patch is [Offset, Source, Size], Source the parsed value the pointer
\* refers to.
RECURSIVE matchDirFrom(_, _, _, _, _, _)
matchDirFrom(t, mux, dirs, i, fallback, fbPatches) ==
    IF i = 0 THEN
        IF dirs = <<>> THEN [match |-> mux, fallback |-> NilNode, patches |-> <<>>]
        ELSE
        LET dir == Head(dirs)
            ok  == dir \in t[mux].m
            lit == IF ok
                   THEN matchDirFrom(t, LitChild(mux, dir), Tail(dirs), 0, NilNode, <<>>)
                   ELSE NoMatch
        IN  IF ok /\ lit.match # NilNode
            THEN [match |-> lit.match, fallback |-> NilNode, patches |-> lit.patches]
            ELSE
            LET s == matchDirFrom(t, mux, dirs, 1, lit.fallback, lit.patches)
            IN  IF s.match # NilNode THEN s
                ELSE IF UsesOwn(s.fallback, t[mux].servesDir)
                THEN OwnFallback(mux, s.patches)
                ELSE s
    ELSE IF i > Len(t[mux].matchers)
    THEN [match |-> NilNode, fallback |-> fallback, patches |-> fbPatches]
    ELSE
    LET dir     == Head(dirs)
        matcher == t[mux].matchers[i]
        parsed  == ApplyFn(matcher.FieldParser.Fn,
                           Captured(dir, matcher.Prefix, matcher.Suffix))
    IN  IF ~Qualifies(dir, matcher.Prefix, matcher.Suffix)
        THEN matchDirFrom(t, mux, dirs, i + 1, fallback, fbPatches)
        ELSE IF parsed.err
        THEN matchDirFrom(t, mux, dirs, i + 1, fallback, fbPatches)
        ELSE
        LET patch == [Offset |-> matcher.FieldParser.Offset,
                      Source |-> parsed.val,
                      Size   |-> matcher.FieldParser.Size]
            r     == matchDirFrom(t, PatChild(mux, i), Tail(dirs), 0, NilNode, <<>>)
        IN  IF r.match # NilNode
            THEN [match |-> r.match, fallback |-> NilNode,
                  patches |-> <<patch>> \o r.patches]
            ELSE IF fallback = NilNode
            THEN matchDirFrom(t, mux, dirs, i + 1, r.fallback, <<patch>> \o r.patches)
            ELSE matchDirFrom(t, mux, dirs, i + 1, fallback, fbPatches)

\* matchDir with the loop over the matchers run before the lookup in mux.m
matchDir_MatchersFirst(t, mux, dirs) ==
    IF dirs = <<>> THEN matchDirFrom(t, mux, dirs, 0, NilNode, <<>>)
    ELSE IF matchDirFrom(t, mux, dirs, 1, NilNode, <<>>).match # NilNode
    THEN matchDirFrom(t, mux, dirs, 1, NilNode, <<>>)
    ELSE matchDirFrom(t, mux, dirs, 0, NilNode, <<>>)

\* mux.matchDir(dirs)
matchDir(t, mux, dirs) == matchDirFrom(t, mux, dirs, 0, NilNode, <<>>)

(***************************************************************************)
(* ServeHTTP.                                                              *)
(***************************************************************************)

Without(h, id) == [o \in DOMAIN h \ {id} |-> h[o]]
With(h, id, bytes) == [o \in DOMAIN h \cup {id} |-> IF o = id THEN bytes ELSE h[o]]

\* a lookup that does not look at the method
MethodHandlerOf_AnyMethod(node, method) ==
    IF node.methodHandlers = Nil THEN Nil
    ELSE node.methodHandlers[CHOOSE m \in DOMAIN node.methodHandlers : TRUE]

\* match.methodHandlers[r.Method] (a nil map yields nil)
MethodHandlerOf(node, method) ==
    IF node.methodHandlers = Nil THEN Nil
    ELSE IF method \notin DOMAIN node.methodHandlers THEN Nil
    ELSE node.methodHandlers[method]

\* the bytes a slice [obj, len] shows
SliceBytes(h, sl) == IF sl.obj = NilObj THEN <<>> ELSE SubSeq(h[sl.obj], 1, sl.len)

\* the patches applied from the last to the first
RECURSIVE ApplyPatches_LeafFirst(_, _)
ApplyPatches_LeafFirst(buf, patches) ==
    IF patches = <<>> THEN buf
    ELSE ApplyPatches_LeafFirst(
            WriteBytes(buf, patches[Len(patches)].Offset,
                       ValueBytes(patches[Len(patches)].Source, patches[Len(patches)].Size)),
            SubSeq(patches, 1, Len(patches) - 1))

\* the loop of ServeHTTP over the patches: copy(dst, src) at each offset
RECURSIVE ApplyPatches(_, _)
ApplyPatches(buf, patches) ==
    IF patches = <<>> THEN buf
    ELSE ApplyPatches(
            WriteBytes(buf, Head(patches).Offset,
                       ValueBytes(Head(patches).Source, Head(patches).Size)),
            Tail(patches))

\* a patch whose destination reaches past the buffer (unsafe.Slice checks nothing)
OutOfBounds(len, patches) ==
    \E i \in 1..Len(patches) : patches[i].Offset + patches[i].Size > len

\* the binding without the copy: the patches are written into the template,
\* and the template is what is handed on
BindMetadata_InPlace(h, node, patches, buf) ==
    IF node.metadata = NilObj
    THEN [heap |-> With(h, buf, [j \in 1..node.metadataRaw.len |-> PadByte]),
          mdIf |-> Nil]
    ELSE [heap |-> With(h, node.metadataRaw.obj,
                        ApplyPatches(SliceBytes(h, node.metadataRaw), patches)),
          mdIf |-> [obj |-> node.metadataRaw.obj, type |-> node.metadataType]]

\* lines 102-113 of ServeHTTP: the buffer the request gets, as object `buf`
\* of the heap, and the metadata interface handed on (Nil, or [obj, type])
BindMetadata(h, node, patches, buf) ==
    IF node.metadata = NilObj
    THEN [heap |-> With(h, buf, [j \in 1..node.metadataRaw.len |-> PadByte]),
          mdIf |-> Nil]
    ELSE [heap |-> With(h, buf,
                        ApplyPatches(WriteBytes([j \in 1..node.metadataRaw.len |-> PadByte],
                                                0, SliceBytes(h, node.metadataRaw)),
                                     patches)),
          mdIf |-> [obj |-> buf, type |-> node.metadataType]]

BufOf(w) == <<"req", w>>

NoResp(w, method, path) ==
    [path |-> path, method |-> method, status |-> "none", locked |-> FALSE,
     match |-> NilNode, fallback |-> NilNode, node |-> NilNode, patches |-> <<>>,
     mh |-> Nil, mdIf |-> Nil, beforeCalled |-> FALSE, funcCalled |-> FALSE,
     route |-> Nil, tmpl |-> <<>>, written |-> FALSE, at |-> 0,
     calls |-> <<>>, beforeArgs |-> Nil]

\* a worker that has served no request
Idle == NoResp(0, "", <<>>)

\* the arguments mux.Before is called with
BeforeArgs(sel, b) == [md |-> b.mdIf, data |-> sel.mh.Data]

\* the calls made when the method handler is called whatever the hook returns
Invoke_IgnoreError(sel, b, oob, hasBefore, beforeErr, crash) ==
    IF oob /\ crash
    THEN [resp |-> [sel EXCEPT !.status = "crash", !.mdIf = b.mdIf], heap |-> b.heap]
    ELSE [resp |-> [sel EXCEPT !.status = IF hasBefore /\ beforeErr THEN "beforeErr" ELSE "ok",
                               !.mdIf = b.mdIf,
                               !.beforeCalled = hasBefore, !.funcCalled = TRUE,
                               !.calls = IF hasBefore THEN <<"Before", "Func">>
                                         ELSE <<"Func">>,
                               !.beforeArgs = IF hasBefore THEN BeforeArgs(sel, b) ELSE Nil],
          heap |-> b.heap]

\* lines 114-124 of ServeHTTP: the hook, then the method handler.  sel is
\* the request so far, b the bound metadata.  calls lists the user code
\* called, in order; status "beforeErr" is handleErr called with the error
\* of the hook.
Invoke(sel, b, oob, hasBefore, beforeErr, crash) ==
    IF oob /\ crash
    THEN [resp |-> [sel EXCEPT !.status = "crash", !.mdIf = b.mdIf], heap |-> b.heap]
    ELSE IF hasBefore /\ beforeErr
    THEN [resp |-> [sel EXCEPT !.status = "beforeErr", !.mdIf = b.mdIf,
                               !.beforeCalled = TRUE,
                               !.calls = <<"Before">>,
                               !.beforeArgs = BeforeArgs(sel, b)],
          heap |-> b.heap]
    ELSE [resp |-> [sel EXCEPT !.status = "ok", !.mdIf = b.mdIf,
                               !.beforeCalled = hasBefore, !.funcCalled = TRUE,
                               !.calls = IF hasBefore THEN <<"Before", "Func">>
                                         ELSE <<"Func">>,
                               !.beforeArgs = IF hasBefore THEN BeforeArgs(sel, b) ELSE Nil],
          heap |-> b.heap]

\* Dispatch with the Before hook called ahead of the lookup of the method
Dispatch_HookFirst(t, h, h0, hasBefore, w, got, r, id, beforeErr, crash) ==
    IF id = NilNode
    THEN [resp |-> [got EXCEPT !.status = "404"], heap |-> h0]
    ELSE IF MethodHandlerOf(t[id], got.method) = Nil
    THEN [resp |-> [got EXCEPT !.route = t[id].route, !.status = "405",
                               !.beforeCalled = hasBefore],
          heap |-> h0]
    ELSE Invoke([got EXCEPT !.route = t[id].route,
                            !.mh = MethodHandlerOf(t[id], got.method),
                            !.tmpl = SliceBytes(h, t[id].metadataRaw)],
                BindMetadata(h0, t[id], r.patches, BufOf(w)),
                t[id].metadata # NilObj /\ OutOfBounds(t[id].metadataRaw.len, r.patches),
                hasBefore, beforeErr, crash)

\* lines 87-113 of ServeHTTP, r being what matchDir returned, id the node
\* chosen from it and h0 the heap without the worker's previous buffer
Dispatch(t, h, h0, hasBefore, w, got, r, id, beforeErr, crash) ==
    IF id = NilNode
    THEN [resp |-> [got EXCEPT !.status = "404"], heap |-> h0]
    ELSE IF MethodHandlerOf(t[id], got.method) = Nil
    THEN [resp |-> [got EXCEPT !.route = t[id].route, !.status = "405"], heap |-> h0]
    ELSE Invoke([got EXCEPT !.route = t[id].route,
                            !.mh = MethodHandlerOf(t[id], got.method),
                            !.tmpl = SliceBytes(h, t[id].metadataRaw)],
                BindMetadata(h0, t[id], r.patches, BufOf(w)),
                t[id].metadata # NilObj /\ OutOfBounds(t[id].metadataRaw.len, r.patches),
                hasBefore, beforeErr, crash)

\* the request once matchDir has returned r
Matched(t, h, hasBefore, w, method, path, r, beforeErr, crash) ==
    Dispatch(t, h, Without(h, BufOf(w)), hasBefore, w,
             [NoResp(w, method, path) EXCEPT
                 !.locked = TRUE, !.match = r.match, !.fallback = r.fallback,
                 !.node = IF r.match # NilNode THEN r.match ELSE r.fallback,
                 !.patches = r.patches],
             r, IF r.match # NilNode THEN r.match ELSE r.fallback,
             beforeErr, crash)

\* ServeHTTP(w, r) by worker w on trie t and heap h.  beforeErr: the Before
\* hook returns an error; crash: the build faults on an out-of-bounds patch
\* instead of writing on.  [resp, heap]
Serve(t, h, hasBefore, w, method, path, beforeErr, crash) ==
    IF path = <<>>
    THEN [resp |-> [NoResp(w, method, path) EXCEPT !.status = "panic"],
          heap |-> Without(h, BufOf(w))]
    ELSE IF path[1] # "/"
    THEN [resp |-> [NoResp(w, method, path) EXCEPT !.status = "404"],
          heap |-> Without(h, BufOf(w))]
    ELSE Matched(t, h, hasBefore, w, method, path,
                 matchDir(t, Root, Tail(Split(path, "/"))), beforeErr, crash)

(***************************************************************************)
(* Actions.                                                                *)
(***************************************************************************)

\* the number of HandleFunc calls a run makes
MaxReg == 2

\* the caller's object &T{...}: preset "zero" is &T{}, "dflt" sets every field
PresetVal(k, preset) ==
    IF preset = "zero" THEN ZeroOf(k)
    ELSE IF k = "string" THEN StrVal(<<"d">>)
    ELSE IntVal(FALSE, <<7>>)

CallerBytes(T, preset) == StructBytes(T, [i \in 1..Len(T) |-> PresetVal(T[i].Kind, preset)])

\* the map HandleFunc builds from mhs: method -> &mhs[i]
\* lines 46-49 of parseStruct: the type is not in mdTypeMap
CacheMiss(cache, T) == T \notin DOMAIN cache

\* the number of times a HandleFunc call that succeeds derives the
\* descriptor table of its metadata type from the struct fields: once for
\* each variable segment whose parseStruct call misses the cache
Derivations(cache, path, T) ==
    IF T = NilType \/ ~CacheMiss(cache, T) THEN 0
    ELSE Cardinality({k \in 1..Len(WalkedDirs(Tail(Split(path, "/")))) :
                        Contains(WalkedDirs(Tail(Split(path, "/")))[k], "{")})

MethodHandlers(reg, methods) ==
    [m \in methods |-> [Method |-> m, Func |-> <<reg, m>>, Data |-> <<"data", reg>>]]

\* Mux.HandleFunc(path, metadata, mhs...): md is Nil or [type, preset];
\* methods are the methods of mhs.  Each method handler is named by the
\* registration and its method; its custom data by the registration.
HandleFunc(path, md, methods) ==
    /\ ~fatal
    /\ nreg < MaxReg
    /\ LET reg == nreg + 1
           obj == <<"md", reg>>
           h2  == IF md = Nil THEN heap ELSE With(heap, obj, CallerBytes(md.type, md.preset))
           mhs == MethodHandlers(reg, methods)
           r   == mkRoute(nodes, path,
                          IF md = Nil THEN Nil ELSE [obj |-> obj, type |-> md.type],
                          mhs, reg)
       IN  /\ nodes' = r.t
           /\ fatal' = r.fatal
           /\ heap' = h2
           /\ nreg' = reg
           /\ regs' = Append(regs, [path |-> path, ok |-> ~r.fatal,
                                    type |-> IF md = Nil THEN NilType ELSE md.type,
                                    preset |-> IF md = Nil THEN "none" ELSE md.preset,
                                    methods |-> methods,
                                    derived |-> Derivations(mdTypeMap, path,
                                        IF md = Nil THEN NilType ELSE md.type)])
    /\ UNCHANGED <<Before, resp, pin, run, mdTypeMap>>

\* the value user code stores into a field of kind k
MarkOf(k) == IF k = "string" THEN StrVal(<<"!">>) ELSE IntVal(FALSE, <<1>>)

\* the caller of HandleFunc call number reg stores into field i of the object
\* it passed as metadata, after HandleFunc has returned
CallerWrite(reg, i) ==
    /\ ~fatal
    /\ reg \in 1..nreg
    /\ <<"md", reg>> \in DOMAIN heap
    /\ i \in 1..Len(regs[reg].type)
    /\ ReadField(heap[<<"md", reg>>], FieldOffset(regs[reg].type, i), regs[reg].type[i].Kind)
          # MarkOf(regs[reg].type[i].Kind)
    /\ heap' = [heap EXCEPT ![<<"md", reg>>] =
                    WriteBytes(@, FieldOffset(regs[reg].type, i),
                               ValueBytes(MarkOf(regs[reg].type[i].Kind),
                                          KindSize(regs[reg].type[i].Kind)))]
    /\ UNCHANGED <<nodes, nreg, fatal, Before, resp, regs, pin, run, mdTypeMap>>

\* Mux.ServeHTTP, with the hook and the handler it calls
ServeHTTP(w, method, path) ==
    /\ ~fatal
    /\ \E beforeErr \in BOOLEAN, crash \in BOOLEAN :
          /\ beforeErr => Before
          /\ LET s == Serve(nodes, heap, Before, w, method, path, beforeErr, crash)
             IN  /\ resp' = [resp EXCEPT ![w] = [s.resp EXCEPT !.at = nreg]]
                 /\ heap' = s.heap
    /\ UNCHANGED <<nodes, nreg, fatal, Before, regs, pin, run, mdTypeMap>>

\* user code (the Before hook or the method handler) of worker w's request
\* stores into the first field of the metadata it was handed
HandlerWrite(w) ==
    /\ ~fatal
    /\ resp[w].status \in {"ok", "beforeErr"}
    /\ resp[w].mdIf # Nil
    /\ ~resp[w].written
    /\ resp[w].mdIf.type # <<>>
    /\ LET T == resp[w].mdIf.type
       IN  heap' = [heap EXCEPT ![resp[w].mdIf.obj] =
                       WriteBytes(@, FieldOffset(T, 1),
                                  ValueBytes(MarkOf(T[1].Kind), KindSize(T[1].Kind)))]
    /\ resp' = [resp EXCEPT ![w].written = TRUE]
    /\ UNCHANGED <<nodes, nreg, fatal, Before, regs, pin, run, mdTypeMap>>

(***************************************************************************)
(* The same two operations step by step, with the mux's RWMutex: mkRoute   *)
(* takes the lock, walks one segment at a time and attaches; ServeHTTP     *)
(* takes the read lock, walks, releases it and then dispatches.            *)
(***************************************************************************)

\* no call under way
NoCall == [active |-> FALSE]

\* mux.Lock() that does not wait for the readers
CanLock_IgnoreReaders(mu) == ~mu.w

\* mux.Lock() can return: no writer and no reader holds the mutex
CanLock(mu) == ~mu.w /\ mu.r = {}

\* mux.RLock() can return: no writer holds the mutex
\* a read lock that is kept until ServeHTTP returns
RUnlock_Deferred(mu, w) == mu

\* mux.RUnlock() by the request of worker w
RUnlock(mu, w) == [mu EXCEPT !.r = @ \ {w}]

CanRLock(mu) == ~mu.w

\* the metadata argument of HandleFunc call number reg
MdOf(reg, md) == IF md = Nil THEN Nil ELSE [obj |-> <<"md", reg>>, type |-> md.type]

\* HandleFunc is called and mkRoute takes the lock (lines 132-143)
RegBegin(path, md, methods) ==
    /\ ~fatal
    /\ nreg < MaxReg
    /\ ~run.reg.active
    /\ path # <<>>
    /\ CanLock(run.mu)
    /\ heap' = IF md = Nil THEN heap
               ELSE With(heap, <<"md", nreg + 1>>, CallerBytes(md.type, md.preset))
    /\ fatal' = (path[1] # "/")
    /\ run' = [run EXCEPT
                  !.mu.w = TRUE,
                  !.reg  = [active |-> TRUE, path |-> path, md |-> MdOf(nreg + 1, md),
                            type |-> IF md = Nil THEN NilType ELSE md.type,
                            preset |-> IF md = Nil THEN "none" ELSE md.preset,
                            methods |-> methods, mux |-> Root,
                            dirs |-> WalkedDirs(Tail(Split(path, "/")))]]
    /\ UNCHANGED <<nodes, nreg, Before, resp, regs, pin, mdTypeMap>>

\* the turn of the loop of mkRoute that call g is at, on trie t
StepOf(t, g) ==
    SegmentStep(t, g.mux, Head(g.dirs),
                Cut(Head(g.dirs), "{"),
                Cut(Cut(Head(g.dirs), "{").after, "}"),
                g.md,
                IF g.md = Nil THEN [fatal |-> TRUE, map |-> <<>>]
                ELSE parseStruct(g.md.type))

\* one turn of the loop of mkRoute (lines 144-207)
RegStep ==
    /\ ~fatal
    /\ run.reg.active
    /\ run.reg.dirs # <<>>
    /\ nodes' = StepOf(nodes, run.reg).t
    /\ fatal' = StepOf(nodes, run.reg).fatal
    /\ run' = [run EXCEPT !.reg.mux = StepOf(nodes, run.reg).mux, !.reg.dirs = Tail(@)]
    /\ UNCHANGED <<heap, nreg, Before, resp, regs, pin, mdTypeMap>>

\* the terminal node takes the registration and the deferred Unlock runs
\* (lines 208-215)
RegEnd ==
    /\ ~fatal
    /\ run.reg.active
    /\ run.reg.dirs = <<>>
    /\ nodes' = [nodes EXCEPT ![run.reg.mux] =
                     Attach(@, run.reg.path[Len(run.reg.path)] = "/", run.reg.md,
                            MethodHandlers(nreg + 1, run.reg.methods),
                            run.reg.path, nreg + 1)]
    /\ nreg' = nreg + 1
    /\ regs' = Append(regs, [path |-> run.reg.path, ok |-> TRUE, type |-> run.reg.type,
                             preset |-> run.reg.preset, methods |-> run.reg.methods,
                             derived |-> Derivations(mdTypeMap, run.reg.path,
                                                     run.reg.type)])
    /\ run' = [run EXCEPT !.mu.w = FALSE, !.reg = NoCall]
    /\ UNCHANGED <<heap, fatal, Before, resp, pin, mdTypeMap>>

\* ServeHTTP is called and takes the read lock (lines 79-84); seen is a
\* history field, the trie at that moment
SrvRLock(w, method, path) ==
    /\ ~fatal
    /\ ~run.walk[w].active
    /\ path # <<>>
    /\ path[1] = "/"
    /\ CanRLock(run.mu)
    /\ run' = [run EXCEPT
                  !.mu.r = @ \cup {w},
                  !.walk[w] = [active |-> TRUE, phase |-> "walking", method |-> method,
                               path |-> path, pos |-> 0, seen |-> nodes, r |-> NoMatch,
                               mh |-> Nil, route |-> Nil, mdIf |-> Nil, mdReg |-> 0,
                               oob |-> FALSE, tmpl |-> <<>>]]
    /\ UNCHANGED <<nodes, heap, nreg, fatal, Before, resp, regs, pin, mdTypeMap>>

\* matchDir consumes one more segment
SrvWalk(w) ==
    /\ ~fatal
    /\ run.walk[w].active
    /\ run.walk[w].phase = "walking"
    /\ run.walk[w].pos < Len(Tail(Split(run.walk[w].path, "/")))
    /\ run' = [run EXCEPT !.walk[w].pos = @ + 1]
    /\ UNCHANGED <<nodes, heap, nreg, fatal, Before, resp, regs, pin, mdTypeMap>>

\* matchDir returns and the read lock is released (lines 85-86)
SrvRUnlock(w) ==
    /\ ~fatal
    /\ run.walk[w].active
    /\ run.walk[w].phase = "walking"
    /\ run.walk[w].pos = Len(Tail(Split(run.walk[w].path, "/")))
    /\ run' = [run EXCEPT
                  !.mu = RUnlock(@, w),
                  !.walk[w].phase = "matched",
                  !.walk[w].r = matchDir(nodes, Root, Tail(Split(run.walk[w].path, "/")))]
    /\ UNCHANGED <<nodes, heap, nreg, fatal, Before, resp, regs, pin, mdTypeMap>>

\* the rest of ServeHTTP (lines 87-129), outside the lock
SrvDispatch(w) ==
    /\ ~fatal
    /\ run.walk[w].active
    /\ run.walk[w].phase = "matched"
    /\ \E beforeErr \in BOOLEAN, crash \in BOOLEAN :
          /\ beforeErr => Before
          /\ resp' = [resp EXCEPT ![w] =
                         [Matched(nodes, heap, Before, w, run.walk[w].method,
                                  run.walk[w].path, run.walk[w].r, beforeErr, crash).resp
                             EXCEPT !.at = nreg]]
          /\ heap' = Matched(nodes, heap, Before, w, run.walk[w].method,
                             run.walk[w].path, run.walk[w].r, beforeErr, crash).heap
    /\ run' = [run EXCEPT !.walk[w] = NoCall]
    /\ UNCHANGED <<nodes, nreg, fatal, Before, regs, pin, mdTypeMap>>

(***************************************************************************)
(* The routing specification: registrations with path variables, requests. *)
(***************************************************************************)

\* type MD struct { X string; Y string `cmux:"z"`; N uint8 }
MD == << [Name |-> <<"X">>, Tag |-> <<>>,    Kind |-> "string"],
         [Name |-> <<"Y">>, Tag |-> <<"z">>, Kind |-> "string"],
         [Name |-> <<"N">>, Tag |-> <<>>,    Kind |-> "uint8"] >>

Reg(path, md, methods) == [path |-> path, md |-> md, methods |-> methods]
Meta(T, preset) == [type |-> T, preset |-> preset]

\* the HandleFunc calls of the routing specification
RegInputs ==
    { Reg(<<"/","a">>,                     Nil,              {"GET"}),
      Reg(<<"/","a","/">>,                 Meta(MD, "dflt"), {"POST"}),
      Reg(<<"/","{","x","}">>,             Meta(MD, "dflt"), {"GET", "POST"}),
      Reg(<<"/","{","z","}">>,             Meta(MD, "zero"), {"GET"}),
      Reg(<<"/","{","n","}">>,             Meta(MD, "dflt"), {"GET"}),
      Reg(<<"/","{","x","}">>,             Nil,              {"GET"}) }

\* the request paths of the routing specification
ReqPaths ==
    { <<"/","a">>, <<"/","b">>, <<"/","7">>, <<"/">>, <<"/","a","/">>,
      <<"/","a","/","c">>, <<"a">> }

Methods == {"GET", "POST"}

\* var mdTypeMap = map[reflect.Type]map[string]pathFieldParser{}
NoTables == [T \in {} |-> <<>>]

EmptyHeap == [o \in {} |-> <<>>]

InitMux(workers, cases) ==
    /\ nodes = [n \in {Root} |-> NewMux]
    /\ heap = EmptyHeap
    /\ nreg = 0
    /\ fatal = FALSE
    /\ Before \in BOOLEAN
    /\ resp = [w \in workers |-> Idle]
    /\ regs = <<>>
    /\ pin \in cases
    /\ run = [mu   |-> [w |-> FALSE, r |-> {}],
              reg  |-> NoCall,
              walk |-> [w \in workers |-> NoCall]]
    /\ mdTypeMap = NoTables

Init == InitMux({1}, {Nil})

Next ==
    \/ \E r \in RegInputs : HandleFunc(r.path, r.md, r.methods)
    \/ \E w \in DOMAIN resp, m \in Methods, p \in ReqPaths : ServeHTTP(w, m, p)
    \/ \E w \in DOMAIN resp : HandlerWrite(w)

Spec == Init /\ [][Next]_vars

(***************************************************************************)
(* The directory specification: literal routes, a directory route and the  *)
(* paths inside it.                                                        *)
(***************************************************************************)

\* the HandleFunc calls of the directory specification
DirInputs ==
    { Reg(<<"/","d","/">>,             Nil,              {"GET"}),
      Reg(<<"/","d">>,                 Nil,              {"GET"}),
      Reg(<<"/","d","/","a","/","b">>, Nil,              {"GET"}),
      Reg(<<"/","d","/","e","/","x">>, Nil,              {"POST"}),
      Reg(<<"/","d","/","{","x","}">>, Meta(MD, "dflt"), {"GET"}),
      Reg(<<"/">>,                     Nil,              {"GET"}) }

\* the request paths of the directory specification
DirPaths ==
    { <<"/","d","/">>, <<"/","d">>, <<"/","d","/","e">>, <<"/","d","/","a">>,
      <<"/","d","/","a","/","b">>, <<"/","d","/","q","/","r">>, <<"/">> }

NextDir ==
    \/ \E r \in DirInputs : HandleFunc(r.path, r.md, r.methods)
    \/ \E w \in DOMAIN resp, m \in Methods, p \in DirPaths : ServeHTTP(w, m, p)
    \/ \E w \in DOMAIN resp : HandlerWrite(w)

SpecDir == Init /\ [][NextDir]_vars

(***************************************************************************)
(* The capture specification: one route "/prefix{v}suffix" whose metadata  *)
(* has the single field V, and one request "/text".  The case is drawn at  *)
(* Init and kept in pin.                                                   *)
(***************************************************************************)

\* type One struct { V k }
One(k) == << [Name |-> <<"V">>, Tag |-> <<>>, Kind |-> k] >>

Case(prefix, suffix, kind, text) ==
    [prefix |-> prefix, suffix |-> suffix, kind |-> kind, text |-> text]

\* the longest segment over {a, b} that is drawn
MaxLen == 3

RECURSIVE Strs(_)
Strs(n) ==
    IF n = 0 THEN {<<>>}
    ELSE Strs(n - 1) \cup {Append(x, c) : x \in Strs(n - 1), c \in {"a", "b"}}

\* the string cases: prefixes, suffixes and segments that overlap, nest and
\* miss each other, and a prefix and a suffix of several characters
StringCases ==
    {Case(p, x, "string", t) :
        p \in {<<>>, <<"a">>, <<"a","b">>},
        x \in {<<>>, <<"a">>, <<"b","a">>},
        t \in Strs(MaxLen)}
    \cup
    {Case(<<"p","r","e","f","i","x">>, <<"s","u","f","f","i","x">>, "string", t) :
        t \in { <<"p","r","e","f","i","x","H","E","L","L","O","s","u","f","f","i","x">>,
                <<"p","r","e","f","i","x","s","u","f","f","i","x">>,
                <<"p","r","e","f","X","s","u","f","f","i","x">>,
                <<"p","r","e","f","i","x">>, <<>> }}

DigitChars == <<"0", "1", "2", "3", "4", "5", "6", "7", "8", "9">>

\* the decimal text of a magnitude
Txt(mag) == [i \in 1..Len(mag) |-> DigitChars[mag[i] + 1]]

\* the magnitudes at and around the limits of the integer widths
Marks ==
    { <<0>>, <<7>>, <<1,2,7>>, <<1,2,8>>, <<1,2,9>>, <<2,5,5>>, <<2,5,6>>,
      <<3,2,7,6,7>>, <<3,2,7,6,8>>, <<3,2,7,6,9>>, <<6,5,5,3,5>>, <<6,5,5,3,6>>,
      <<2,1,4,7,4,8,3,6,4,7>>, <<2,1,4,7,4,8,3,6,4,8>>, <<2,1,4,7,4,8,3,6,4,9>>,
      <<4,2,9,4,9,6,7,2,9,5>>, <<4,2,9,4,9,6,7,2,9,6>>,
      <<9,2,2,3,3,7,2,0,3,6,8,5,4,7,7,5,8,0,7>>,
      <<9,2,2,3,3,7,2,0,3,6,8,5,4,7,7,5,8,0,8>>,
      <<9,2,2,3,3,7,2,0,3,6,8,5,4,7,7,5,8,0,9>>,
      <<1,8,4,4,6,7,4,4,0,7,3,7,0,9,5,5,1,6,1,5>>,
      <<1,8,4,4,6,7,4,4,0,7,3,7,0,9,5,5,1,6,1,6>> }

NumberTexts ==
    {Txt(m) : m \in Marks} \cup {<<"-">> \o Txt(m) : m \in Marks}
    \cup { <<>>, <<"-">>, <<"+">>, <<"+","7">>, <<"0","0","7">>, <<"-","0","7">>,
           <<"1","a">>, <<"a","b">>, <<"7","-">> }

IntegerCases ==
    {Case(<<>>, <<>>, k, t) : k \in UintKinds \cup IntKinds, t \in NumberTexts}

PatternOf(c) == <<"/">> \o c.prefix \o <<"{", "v", "}">> \o c.suffix

\* HandleFunc of the case's route, the object being the zero value
RegisterCase ==
    HandleFunc(PatternOf(pin), Meta(One(pin.kind), "zero"), {"GET"})

\* a GET request for the case's path
RequestCase == ServeHTTP(1, "GET", <<"/">> \o pin.text)

InitCapture == InitMux({1}, StringCases \cup IntegerCases)

NextCapture ==
    \/ RegisterCase
    \/ RequestCase

SpecCapture == InitCapture /\ [][NextCapture]_vars

(***************************************************************************)
(* The binding specification: two requests in flight at once, each handed  *)
(* its metadata and one of them storing into it.                           *)
(***************************************************************************)

\* the HandleFunc calls of the binding specification
BindInputs ==
    { Reg(<<"/","{","x","}">>, Meta(MD, "dflt"), {"GET"}),
      Reg(<<"/","s">>,         Meta(MD, "zero"), {"GET"}) }

\* the request paths of the binding specification
BindPaths == { <<"/","b">>, <<"/","s">> }

InitBind == InitMux({1, 2}, {Nil})

NextBind ==
    \/ \E r \in BindInputs : HandleFunc(r.path, r.md, r.methods)
    \/ \E w \in DOMAIN resp, p \in BindPaths : ServeHTTP(w, "GET", p)
    \/ \E w \in DOMAIN resp : HandlerWrite(w)

SpecBind == InitBind /\ [][NextBind]_vars

(***************************************************************************)
(* The caller specification: the caller of HandleFunc goes on using the    *)
(* object it registered.                                                   *)
(***************************************************************************)

\* the HandleFunc calls of the caller specification
AliasInputs ==
    { Reg(<<"/","{","x","}">>, Meta(MD, "dflt"), {"GET"}),
      Reg(<<"/","s">>,         Meta(MD, "dflt"), {"GET"}) }

\* the request paths of the caller specification
AliasPaths == { <<"/","b">>, <<"/","s">> }

NextAlias ==
    \/ \E r \in AliasInputs : HandleFunc(r.path, r.md, r.methods)
    \/ \E reg \in 1..MaxReg, i \in 1..Len(MD) : CallerWrite(reg, i)
    \/ \E w \in DOMAIN resp, p \in AliasPaths : ServeHTTP(w, "GET", p)

SpecAlias == Init /\ [][NextAlias]_vars

(***************************************************************************)
(* The bracket specification: patterns whose brackets are doubled, open,   *)
(* stray or nested, registered with a metadata type that has both fields.  *)
(***************************************************************************)

\* type AB struct { A string; B string }
AB == << [Name |-> <<"A">>, Tag |-> <<>>, Kind |-> "string"],
         [Name |-> <<"B">>, Tag |-> <<>>, Kind |-> "string"] >>

\* the HandleFunc calls of the bracket specification
BracketInputs ==
    { Reg(<<"/","{","a","}">>,             Meta(AB, "zero"), {"GET"}),
      Reg(<<"/","{","a","}","{","b","}">>, Meta(AB, "zero"), {"GET"}),
      Reg(<<"/","{","a","}","}">>,         Meta(AB, "zero"), {"GET"}),
      Reg(<<"/","{","a">>,                 Meta(AB, "zero"), {"GET"}),
      Reg(<<"/","a","}">>,                 Meta(AB, "zero"), {"GET"}),
      Reg(<<"/","}","{","a","}">>,         Meta(AB, "zero"), {"GET"}),
      Reg(<<"/","{","a","{","b","}","}">>, Meta(AB, "zero"), {"GET"}),
      Reg(<<"/","{","{","a","}","}">>,     Meta(AB, "zero"), {"GET"}) }

\* the request paths of the bracket specification
BracketPaths ==
    { <<"/","x">>, <<"/","x","}">>, <<"/","x","{","b","}">>, <<"/","{","b","}">> }

NextBracket ==
    \/ \E r \in BracketInputs : HandleFunc(r.path, r.md, r.methods)
    \/ \E w \in DOMAIN resp, m \in Methods, p \in BracketPaths : ServeHTTP(w, m, p)

SpecBracket == Init /\ [][NextBracket]_vars

(***************************************************************************)
(* The variable specification: patterns whose variables do or do not name  *)
(* a field of the metadata they are registered with.                       *)
(***************************************************************************)

\* type ABC struct { A string; B string `cmux:"bee"`; C string `cmux:"-"` }
ABC == << [Name |-> <<"A">>, Tag |-> <<>>,                Kind |-> "string"],
          [Name |-> <<"B">>, Tag |-> <<"b","e","e">>,     Kind |-> "string"],
          [Name |-> <<"C">>, Tag |-> <<"-">>,             Kind |-> "string"] >>

\* the HandleFunc calls of the variable specification
VarInputs ==
    { Reg(<<"/","{","a","}">>,                 Meta(ABC, "zero"), {"GET"}),
      Reg(<<"/","{","b","e","e","}">>,         Meta(ABC, "zero"), {"GET"}),
      Reg(<<"/","{","b","}">>,                 Meta(ABC, "zero"), {"GET"}),
      Reg(<<"/","{","c","}">>,                 Meta(ABC, "zero"), {"GET"}),
      Reg(<<"/","{","A","}">>,                 Meta(ABC, "zero"), {"GET"}),
      Reg(<<"/","{","a","}">>,                 Nil,               {"GET"}),
      Reg(<<"/","s","/","{","a","}","/","{","d","}">>, Meta(ABC, "zero"), {"GET"}),
      Reg(<<"/","s">>,                         Nil,               {"GET"}) }

\* the request paths of the variable specification
VarPaths == { <<"/","x">>, <<"/","s">>, <<"/","s","/","x","/","y">> }

NextVar ==
    \/ \E r \in VarInputs : HandleFunc(r.path, r.md, r.methods)
    \/ \E w \in DOMAIN resp, m \in Methods, p \in VarPaths : ServeHTTP(w, m, p)

SpecVar == Init /\ [][NextVar]_vars

(***************************************************************************)
(* The locking specification: a registering goroutine and a serving one,   *)
(* interleaved step by step.                                               *)
(***************************************************************************)

\* the HandleFunc calls of the locking specification
LockInputs ==
    { Reg(<<"/","a","/","b">>,         Nil,              {"GET"}),
      Reg(<<"/","{","x","}","/","b">>, Meta(MD, "dflt"), {"GET"}),
      Reg(<<"/","a","/">>,             Nil,              {"GET"}) }

\* the request paths of the locking specification
LockPaths == { <<"/","a","/","b">>, <<"/","a">> }

NextLock ==
    \/ \E r \in LockInputs : RegBegin(r.path, r.md, r.methods)
    \/ RegStep
    \/ RegEnd
    \/ \E w \in DOMAIN resp, p \in LockPaths : SrvRLock(w, "GET", p)
    \/ \E w \in DOMAIN resp : SrvWalk(w)
    \/ \E w \in DOMAIN resp : SrvRUnlock(w)
    \/ \E w \in DOMAIN resp : SrvDispatch(w)

SpecLock == Init /\ [][NextLock]_vars

(***************************************************************************)
(* The matcher specification: variable segments registered one after the   *)
(* other under one parent.                                                 *)
(***************************************************************************)

\* the HandleFunc calls of the matcher specification
MatcherInputs ==
    { Reg(<<"/","{","x","}">>,         Meta(MD, "dflt"), {"GET"}),
      Reg(<<"/","{","x","}","/","b">>, Meta(MD, "dflt"), {"GET"}),
      Reg(<<"/","{","z","}">>,         Meta(MD, "dflt"), {"GET"}),
      Reg(<<"/","{","n","}">>,         Meta(MD, "dflt"), {"GET"}),
      Reg(<<"/","p","{","x","}">>,     Meta(MD, "dflt"), {"GET"}) }

\* the request paths of the matcher specification
MatcherPaths == { <<"/","b">>, <<"/","b","/","b">>, <<"/","7">>, <<"/","p","b">> }

NextMatcher ==
    \/ \E r \in MatcherInputs : HandleFunc(r.path, r.md, r.methods)
    \/ \E w \in DOMAIN resp, p \in MatcherPaths : ServeHTTP(w, "GET", p)

SpecMatcher == Init /\ [][NextMatcher]_vars

(***************************************************************************)
(* The handler specification: routes with several methods, a variable      *)
(* named in two segments, the Before hook.                                 *)
(***************************************************************************)

\* the HandleFunc calls of the handler specification
HookInputs ==
    { Reg(<<"/","s">>,                             Nil,              {"GET", "POST"}),
      Reg(<<"/","s">>,                             Meta(MD, "zero"), {"GET"}),
      Reg(<<"/","{","x","}","a","/","b","{","x","}">>, Meta(MD, "dflt"), {"GET", "POST"}),
      Reg(<<"/","s","/","{","n","}">>,             Meta(MD, "dflt"), {"POST", "PUT"}) }

\* the request paths of the handler specification
HookPaths ==
    { <<"/","s">>, <<"/","c","a","/","b","b">>, <<"/","c","a","/","b">>,
      <<"/","s","/","7">> }

HookMethods == {"GET", "POST", "PUT"}

NextHook ==
    \/ \E r \in HookInputs : HandleFunc(r.path, r.md, r.methods)
    \/ \E w \in DOMAIN resp, m \in HookMethods, p \in HookPaths : ServeHTTP(w, m, p)

SpecHook == Init /\ [][NextHook]_vars

(***************************************************************************)
(* The fallback specification: directory routes below one another, with    *)
(* and without variables.                                                  *)
(***************************************************************************)

\* the HandleFunc calls of the fallback specification
FallbackInputs ==
    { Reg(<<"/">>,                     Nil,              {"GET"}),
      Reg(<<"/","a","/">>,             Nil,              {"GET"}),
      Reg(<<"/","a">>,                 Nil,              {"GET"}),
      Reg(<<"/","a","/","b","/">>,     Nil,              {"GET"}),
      Reg(<<"/","{","x","}","/">>,     Meta(MD, "dflt"), {"GET"}),
      Reg(<<"/","{","x","}","/","b">>, Meta(MD, "dflt"), {"GET"}) }

\* the request paths of the fallback specification
FallbackPaths ==
    { <<"/","a">>, <<"/","a","/","c">>, <<"/","a","/","b">>,
      <<"/","a","/","b","/","c">>, <<"/","c","/","d">>, <<"/","c","/","b">> }

NextFallback ==
    \/ \E r \in FallbackInputs : HandleFunc(r.path, r.md, r.methods)
    \/ \E w \in DOMAIN resp, p \in FallbackPaths : ServeHTTP(w, "GET", p)

SpecFallback == Init /\ [][NextFallback]_vars

(***************************************************************************)
(* The metadata-type specification: routes that share a variable segment   *)
(* and were registered with different metadata types.                      *)
(***************************************************************************)

\* type NX struct { N uint8; X string }
NX == << [Name |-> <<"N">>, Tag |-> <<>>, Kind |-> "uint8"],
         [Name |-> <<"X">>, Tag |-> <<>>, Kind |-> "string"] >>

\* type XO struct { X string }
XO == << [Name |-> <<"X">>, Tag |-> <<>>, Kind |-> "string"] >>

\* the HandleFunc calls of the metadata-type specification
TypeInputs ==
    { Reg(<<"/","{","x","}","/","a">>, Meta(NX, "dflt"), {"GET"}),
      Reg(<<"/","{","x","}","/","b">>, Meta(XO, "dflt"), {"GET"}),
      Reg(<<"/","{","x","}">>,         Meta(XO, "zero"), {"GET"}) }

\* the request paths of the metadata-type specification
TypePaths ==
    { <<"/","c","/","a">>, <<"/","c","/","b">>, <<"/","c">>, <<"/","s">>, <<"s">>, <<>> }

NextTypes ==
    \/ \E r \in TypeInputs : HandleFunc(r.path, r.md, r.methods)
    \/ \E w \in DOMAIN resp, p \in TypePaths : ServeHTTP(w, "GET", p)

SpecTypes == Init /\ [][NextTypes]_vars

(***************************************************************************)
(* ServeHTTP after RUnlock, read by read: the fields of the node it was    *)
(* resolved to are read without the lock, while mkRoute may store into     *)
(* them.                                                                   *)
(***************************************************************************)

\* the node ServeHTTP goes on with (lines 87-93)
NodeOf(r) == IF r.match # NilNode THEN r.match ELSE r.fallback

\* lines 87-98: the node is chosen and its methodHandlers read; a request
\* with no node or no handler is answered and returns
SrvSelect(w) ==
    /\ ~fatal
    /\ run.walk[w].active
    /\ run.walk[w].phase = "matched"
    /\ IF \/ NodeOf(run.walk[w].r) = NilNode
          \/ MethodHandlerOf(nodes[NodeOf(run.walk[w].r)], run.walk[w].method) = Nil
       THEN /\ resp' = [resp EXCEPT ![w] =
                           [Matched(nodes, heap, Before, w, run.walk[w].method,
                                    run.walk[w].path, run.walk[w].r, FALSE, FALSE).resp
                               EXCEPT !.at = nreg]]
            /\ heap' = Matched(nodes, heap, Before, w, run.walk[w].method,
                               run.walk[w].path, run.walk[w].r, FALSE, FALSE).heap
            /\ run' = [run EXCEPT !.walk[w] = NoCall]
       ELSE /\ run' = [run EXCEPT
                          !.walk[w].phase = "selected",
                          !.walk[w].mh = MethodHandlerOf(nodes[NodeOf(run.walk[w].r)],
                                                         run.walk[w].method),
                          !.walk[w].route = nodes[NodeOf(run.walk[w].r)].route]
            /\ UNCHANGED <<resp, heap>>
    /\ UNCHANGED <<nodes, nreg, fatal, Before, regs, pin, mdTypeMap>>

\* lines 102-113: metadataRaw, metadata and metadataType of the node are
\* read and the buffer of the request is built; mdReg is a history field,
\* the registration that stored into the node last
SrvBind(w) ==
    /\ ~fatal
    /\ run.walk[w].active
    /\ run.walk[w].phase = "selected"
    /\ heap' = BindMetadata(Without(heap, BufOf(w)), nodes[NodeOf(run.walk[w].r)],
                            run.walk[w].r.patches, BufOf(w)).heap
    /\ run' = [run EXCEPT
                  !.walk[w].phase = "bound",
                  !.walk[w].mdIf = BindMetadata(Without(heap, BufOf(w)),
                                                nodes[NodeOf(run.walk[w].r)],
                                                run.walk[w].r.patches, BufOf(w)).mdIf,
                  !.walk[w].mdReg = nodes[NodeOf(run.walk[w].r)].route.reg,
                  !.walk[w].oob =
                      /\ nodes[NodeOf(run.walk[w].r)].metadata # NilObj
                      /\ OutOfBounds(nodes[NodeOf(run.walk[w].r)].metadataRaw.len,
                                     run.walk[w].r.patches),
                  !.walk[w].tmpl = SliceBytes(heap, nodes[NodeOf(run.walk[w].r)].metadataRaw)]
    /\ UNCHANGED <<nodes, nreg, fatal, Before, resp, regs, pin, mdTypeMap>>

\* the request of a walk for which a handler has been selected
Selected(w, wk) ==
    [NoResp(w, wk.method, wk.path) EXCEPT
        !.locked = TRUE, !.match = wk.r.match, !.fallback = wk.r.fallback,
        !.node = NodeOf(wk.r), !.patches = wk.r.patches,
        !.route = wk.route, !.mh = wk.mh, !.tmpl = wk.tmpl]

\* lines 114-122: the Before hook and the method handler are called
SrvCall(w) ==
    /\ ~fatal
    /\ run.walk[w].active
    /\ run.walk[w].phase = "bound"
    /\ \E beforeErr \in BOOLEAN, crash \in BOOLEAN :
          /\ beforeErr => Before
          /\ resp' = [resp EXCEPT ![w] =
                         [Invoke(Selected(w, run.walk[w]),
                                 [heap |-> heap, mdIf |-> run.walk[w].mdIf],
                                 run.walk[w].oob, Before, beforeErr, crash).resp
                             EXCEPT !.at = nreg]]
    /\ run' = [run EXCEPT !.walk[w].phase = "handler"]
    /\ UNCHANGED <<nodes, heap, nreg, fatal, Before, regs, pin, mdTypeMap>>

\* the user code returns, and ServeHTTP after it (lines 123-129)
SrvReturn(w) ==
    /\ ~fatal
    /\ run.walk[w].active
    /\ run.walk[w].phase = "handler"
    /\ run' = [run EXCEPT !.walk[w] = NoCall]
    /\ UNCHANGED <<nodes, heap, nreg, fatal, Before, resp, regs, pin, mdTypeMap>>

\* the HandleFunc calls of the specification of the unlocked reads
RaceInputs ==
    { Reg(<<"/","s">>,         Meta(MD, "dflt"), {"GET"}),
      Reg(<<"/","s">>,         Meta(XO, "zero"), {"GET", "POST"}),
      Reg(<<"/","s","/","t">>, Nil,              {"GET"}) }

NextRace ==
    \/ \E r \in RaceInputs : RegBegin(r.path, r.md, r.methods)
    \/ RegStep
    \/ RegEnd
    \/ \E w \in DOMAIN resp, m \in Methods : SrvRLock(w, m, <<"/","s">>)
    \/ \E w \in DOMAIN resp : SrvWalk(w)
    \/ \E w \in DOMAIN resp : SrvRUnlock(w)
    \/ \E w \in DOMAIN resp : SrvSelect(w)
    \/ \E w \in DOMAIN resp : SrvBind(w)
    \/ \E w \in DOMAIN resp : SrvCall(w)
    \/ \E w \in DOMAIN resp : SrvReturn(w)

SpecRace == Init /\ [][NextRace]_vars

(***************************************************************************)
(* The properties.  A response is fresh while no registration has been     *)
(* made since its request: the trie is then the one the request walked.    *)
(***************************************************************************)

Fresh(w) == resp[w].locked /\ resp[w].at = nreg

\* the segments matchDir is called with for a request path
SegsOf(path) == Tail(Split(path, "/"))

RECURSIVE Suffixes(_)
Suffixes(s) == IF s = <<>> THEN {<<>>} ELSE {s} \cup Suffixes(Tail(s))

\* the methods a node has a handler for
MethodsOf(n) ==
    IF nodes[n].methodHandlers = Nil THEN {} ELSE DOMAIN nodes[n].methodHandlers

\* the requests whose method handler or hook ran
Served == {"ok", "beforeErr"}

\* C2: wherever a node has a literal child for the first segment and the
\* rest of the segments match exactly below that child, matchDir returns
\* that match with that child's patches, whatever matchers the node has; so
\* with "/a" and "/{x}" both registered, in either order, a request for "/a"
\* is resolved to the node of "/a".
C2_LiteralFirst ==
    /\ \A n \in DOMAIN nodes : \A w \in DOMAIN resp :
          \A segs \in Suffixes(SegsOf(resp[w].path)) :
             (/\ segs # <<>>
              /\ Head(segs) \in nodes[n].m
              /\ matchDir(nodes, LitChild(n, Head(segs)), Tail(segs)).match # NilNode)
             => /\ matchDir(nodes, n, segs).match
                      = matchDir(nodes, LitChild(n, Head(segs)), Tail(segs)).match
                /\ matchDir(nodes, n, segs).patches
                      = matchDir(nodes, LitChild(n, Head(segs)), Tail(segs)).patches
    /\ \A w \in DOMAIN resp :
          (Fresh(w) /\ Len(SegsOf(resp[w].path)) = 1
                    /\ SegsOf(resp[w].path)[1] \in nodes[Root].m)
          => /\ resp[w].match = LitChild(Root, SegsOf(resp[w].path)[1])
             /\ resp[w].patches = <<>>

\* "/{x}" was registered, then "/a", and a request for "/a" was resolved to
\* the node of "/a" although the matcher of {x} qualifies "a"
C2_Witness ==
    \E w \in DOMAIN resp :
        /\ Fresh(w)
        /\ resp[w].path = <<"/", "a">>
        /\ Len(regs) = 2
        /\ regs[1].path = <<"/", "{", "x", "}">> /\ regs[1].ok
        /\ regs[2].path = <<"/", "a">> /\ regs[2].ok
        /\ Len(nodes[Root].matchers) = 1
        /\ Qualifies(<<"a">>, nodes[Root].matchers[1].Prefix, nodes[Root].matchers[1].Suffix)
        /\ resp[w].match = LitChild(Root, <<"a">>)
        /\ resp[w].status \in Served

\* C7: a request is dispatched to the exact match of matchDir, else to its
\* fallback; with neither the response is 404, with a node that has no
\* handler for the method it is 405, and in both cases neither the Before
\* hook nor a method handler was called; any other request is handled.
C7_Dispatch ==
    \A w \in DOMAIN resp : Fresh(w) =>
        LET r    == matchDir(nodes, Root, SegsOf(resp[w].path))
            node == IF r.match # NilNode THEN r.match ELSE r.fallback
        IN  /\ resp[w].node = node
            /\ resp[w].status = "404" <=> node = NilNode
            /\ resp[w].status = "405"
                  <=> (node # NilNode /\ resp[w].method \notin MethodsOf(node))
            /\ resp[w].status \in {"404", "405"}
                  => ~resp[w].beforeCalled /\ ~resp[w].funcCalled /\ resp[w].mdIf = Nil
            /\ resp[w].status \in {"404", "405", "ok", "beforeErr", "crash"}
            /\ resp[w].status = "ok" => resp[w].funcCalled

\* with a Before hook installed, a request resolved through a fallback to a
\* node that has no handler for its method was answered 405
C7_Witness ==
    \E w \in DOMAIN resp :
        /\ Fresh(w)
        /\ Before
        /\ resp[w].match = NilNode
        /\ resp[w].fallback # NilNode
        /\ resp[w].status = "405"

(***************************************************************************)
(* The reading of a pattern that the properties compare the program with.  *)
(***************************************************************************)

\* the segments of a pattern, without the empty one of a trailing slash
PatSegs(path) ==
    IF SegsOf(path) # <<>> /\ SegsOf(path)[Len(SegsOf(path))] = <<>>
    THEN SubSeq(SegsOf(path), 1, Len(SegsOf(path)) - 1)
    ELSE SegsOf(path)

\* a pattern segment read as prefix{label}suffix
VarOf(seg) ==
    [isVar  |-> Cut(seg, "{").found,
     prefix |-> Cut(seg, "{").before,
     label  |-> Cut(Cut(seg, "{").after, "}").before,
     suffix |-> Cut(Cut(seg, "{").after, "}").after]

\* the texts c with seg = prefix \o c \o suffix
CapturesOf(seg, prefix, suffix) ==
    {c \in {SubSeq(seg, i, j) : i \in 1..Len(seg) + 1, j \in 0..Len(seg)} :
        seg = prefix \o c \o suffix}

\* the positions of pattern P whose variable names field f
VarPositions(P, f) ==
    {j \in 1..Len(P) : VarOf(P[j]).isVar /\ VarOf(P[j]).label = FieldTag(f)}

\* C1: the metadata a handler is handed for a request resolved to the
\* route of pattern P holds, in the field of every variable of P, the text
\* captured at that variable's segment, parsed to the field's type, and in
\* every other field the value the registered object had.
C1_BoundMetadata ==
    \A w \in DOMAIN resp :
        (resp[w].status \in Served /\ resp[w].mdIf # Nil /\ ~resp[w].written) =>
        LET P    == PatSegs(resp[w].route.path)
            R    == SegsOf(resp[w].path)
            T    == resp[w].mdIf.type
            inst == heap[resp[w].mdIf.obj]
        IN  \A i \in 1..Len(T) :
              IF VarPositions(P, T[i]) # {}
              THEN \E j \in VarPositions(P, T[i]) :
                     \E c \in CapturesOf(R[j], VarOf(P[j]).prefix, VarOf(P[j]).suffix) :
                        /\ ~ApplyFn(KindFn(T[i].Kind), c).err
                        /\ ReadField(inst, FieldOffset(T, i), T[i].Kind)
                              = ApplyFn(KindFn(T[i].Kind), c).val
              ELSE ReadField(inst, FieldOffset(T, i), T[i].Kind)
                     = ReadField(resp[w].tmpl, FieldOffset(T, i), T[i].Kind)

\* two patterns that differ in their last segment only, a variable in both,
\* below literal segments: their matchers hang under one parent
Siblings(P1, P2) ==
    /\ Len(P1) = Len(P2) /\ Len(P1) >= 1
    /\ \A k \in 1..Len(P1) - 1 : P1[k] = P2[k] /\ ~VarOf(P1[k]).isVar
    /\ VarOf(P1[Len(P1)]).isVar /\ VarOf(P2[Len(P2)]).isVar
    /\ P1[Len(P1)] # P2[Len(P2)]

\* the kind of the field of T that variable segment seg names
KindOfVar(T, seg) ==
    T[CHOOSE i \in 1..Len(T) : FieldTag(T[i]) = VarOf(seg).label].Kind

\* segment dir matches variable segment seg of a route with metadata type T
VarMatches(T, seg, dir) ==
    \E c \in CapturesOf(dir, VarOf(seg).prefix, VarOf(seg).suffix) :
        ~ApplyFn(KindFn(KindOfVar(T, seg)), c).err

\* C9: with an integer variable registered and then a string variable under
\* the same parent, a request whose segment fails the integer parse (and is
\* no registered literal) is resolved to the route of the string variable.
C9_NextMatcherTried ==
    \A w \in DOMAIN resp : Fresh(w) =>
        \A i, j \in 1..Len(regs) :
            (/\ i < j /\ regs[i].ok /\ regs[j].ok
             /\ \A k \in 1..Len(regs) : regs[k].ok
             /\ \A k \in 1..Len(regs) : k # i /\ k # j =>
                    Len(PatSegs(regs[k].path)) # Len(PatSegs(regs[j].path))
             /\ Siblings(PatSegs(regs[i].path), PatSegs(regs[j].path))
             /\ KindOfVar(regs[i].type, PatSegs(regs[i].path)[Len(PatSegs(regs[i].path))])
                    # "string"
             /\ KindOfVar(regs[j].type, PatSegs(regs[j].path)[Len(PatSegs(regs[j].path))])
                    = "string"
             /\ Len(SegsOf(resp[w].path)) = Len(PatSegs(regs[j].path))
             /\ \A k \in 1..Len(SegsOf(resp[w].path)) - 1 :
                    SegsOf(resp[w].path)[k] = PatSegs(regs[j].path)[k]
             /\ ~VarMatches(regs[i].type, PatSegs(regs[i].path)[Len(PatSegs(regs[i].path))],
                             SegsOf(resp[w].path)[Len(SegsOf(resp[w].path))])
             /\ VarMatches(regs[j].type, PatSegs(regs[j].path)[Len(PatSegs(regs[j].path))],
                            SegsOf(resp[w].path)[Len(SegsOf(resp[w].path))]))
            => /\ resp[w].status # "404"
               /\ resp[w].route # Nil
               /\ resp[w].route.path = regs[j].path

\* a path without a variable
AllLiteral(path) == \A k \in 1..Len(path) : path[k] \notin {"{", "}"}

\* C3: for every node that is the terminal node of a registration of an
\* all-literal path P, matching the request path P returns that node, as
\* the exact match or (for a directory route) as the fallback, with no patch.
C3_LiteralPathResolves ==
    \A n \in DOMAIN nodes :
        (nodes[n].route # Nil /\ AllLiteral(nodes[n].route.path)) =>
            /\ \/ matchDir(nodes, Root, SegsOf(nodes[n].route.path)).match = n
               \/ /\ matchDir(nodes, Root, SegsOf(nodes[n].route.path)).match = NilNode
                  /\ matchDir(nodes, Root, SegsOf(nodes[n].route.path)).fallback = n
            /\ matchDir(nodes, Root, SegsOf(nodes[n].route.path)).patches = <<>>

\* registration g, read as a pattern, matches the request segments R
PatternMatches(g, R) ==
    /\ Len(PatSegs(g.path)) = Len(R)
    /\ \A k \in 1..Len(R) :
          IF VarOf(PatSegs(g.path)[k]).isVar
          THEN VarMatches(g.type, PatSegs(g.path)[k], R[k])
          ELSE PatSegs(g.path)[k] = R[k]

\* the directory route "/d/" is the registration its node holds
DirLive ==
    /\ LitChild(Root, <<"d">>) \in DOMAIN nodes
    /\ nodes[LitChild(Root, <<"d">>)].route # Nil
    /\ nodes[LitChild(Root, <<"d">>)].route.path = <<"/", "d", "/">>

\* C5: with the directory route "/d/" registered and no registration whose
\* pattern matches "/d/e", matching "/d/e" returns no exact match and the
\* node of "/d/" as the fallback.
C5_DirFallback ==
    (/\ DirLive
     /\ \A k \in 1..Len(regs) : regs[k].ok
     /\ \A k \in 1..Len(regs) : ~PatternMatches(regs[k], <<<<"d">>, <<"e">>>>))
    => /\ matchDir(nodes, Root, <<<<"d">>, <<"e">>>>).match = NilNode
       /\ matchDir(nodes, Root, <<<<"d">>, <<"e">>>>).fallback = LitChild(Root, <<"d">>)

\* C6: with "/d/" registered, a request for a path strictly inside "/d/"
\* that no registration matches has no exact match and the node of "/d/" as
\* its fallback.
C6_InsideDir ==
    \A w \in DOMAIN resp :
        (/\ Fresh(w)
         /\ DirLive
         /\ \A k \in 1..Len(regs) : regs[k].ok
         /\ Len(SegsOf(resp[w].path)) >= 2
         /\ SegsOf(resp[w].path)[1] = <<"d">>
         /\ SegsOf(resp[w].path)[Len(SegsOf(resp[w].path))] # <<>>
         /\ \A k \in 1..Len(regs) : ~PatternMatches(regs[k], SegsOf(resp[w].path)))
        => /\ resp[w].match = NilNode
           /\ resp[w].fallback = LitChild(Root, <<"d">>)

\* the value of field V in the metadata worker w's handler was handed
BoundV(w) == ReadField(heap[resp[w].mdIf.obj], 0, pin.kind)

\* worker w's request was made with the case's route registered
CaseServed(w) == Fresh(w) /\ nreg >= 1 /\ pin # Nil

\* C4: the matcher of "/prefix{v}suffix" takes the segment g exactly when
\* g = prefix \o c \o suffix for some text c, prefix and suffix not
\* overlapping, and v is then bound to c; otherwise the request is not found.
\* So "/{v}" captures every segment, the empty one too, and
\* "/prefix{v}suffix" captures "HELLO" from "/prefixHELLOsuffix", "" from
\* "/prefixsuffix" and does not match "/prefXsuffix".
C4_Capture ==
    \A w \in DOMAIN resp : (CaseServed(w) /\ pin.kind = "string") =>
        /\ resp[w].status \in Served
              <=> CapturesOf(pin.text, pin.prefix, pin.suffix) # {}
        /\ resp[w].status \notin Served => resp[w].status = "404"
        /\ resp[w].status \in Served
              => \E c \in CapturesOf(pin.text, pin.prefix, pin.suffix) :
                    BoundV(w) = StrVal(c)
        /\ (pin.prefix = <<>> /\ pin.suffix = <<>>)
              => resp[w].status \in Served /\ BoundV(w) = StrVal(pin.text)
        /\ pin.text = <<"p","r","e","f","i","x","H","E","L","L","O","s","u","f","f","i","x">>
              => resp[w].status \in Served
                 /\ BoundV(w) = StrVal(<<"H","E","L","L","O">>)
        /\ pin.text = <<"p","r","e","f","i","x","s","u","f","f","i","x">>
              => resp[w].status \in Served /\ BoundV(w) = StrVal(<<>>)
        /\ pin.text = <<"p","r","e","f","X","s","u","f","f","i","x">>
              => resp[w].status = "404"

\* "/prefixsuffix" was served by the route "/prefix{v}suffix" with v = ""
C4_Witness ==
    \E w \in DOMAIN resp :
        /\ CaseServed(w)
        /\ pin.prefix = <<"p","r","e","f","i","x">>
        /\ pin.suffix = <<"s","u","f","f","i","x">>
        /\ pin.text = <<"p","r","e","f","i","x","s","u","f","f","i","x">>
        /\ resp[w].status = "ok"
        /\ BoundV(w) = StrVal(<<>>)

\* a text read as a decimal number: an optional sign when the kind is
\* signed, then one digit or more
TextBody(text, signed) ==
    IF signed /\ text # <<>> /\ text[1] \in {"+", "-"} THEN Tail(text) ELSE text

IsNumber(text, signed) ==
    /\ TextBody(text, signed) # <<>>
    /\ \A i \in 1..Len(TextBody(text, signed)) : TextBody(text, signed)[i] \in Digits

TextMag(text, signed) ==
    StripZeros([i \in 1..Len(TextBody(text, signed)) |->
                  IF TextBody(text, signed)[i] \in Digits
                  THEN DigitVal(TextBody(text, signed)[i]) ELSE 0])

TextNeg(text, signed) == signed /\ text # <<>> /\ text[1] = "-"

\* the largest value of an integer kind, and the magnitude of its smallest
MaxOf(k) ==
    CASE k = "uint8"  -> <<2,5,5>>
      [] k = "uint16" -> <<6,5,5,3,5>>
      [] k = "uint32" -> <<4,2,9,4,9,6,7,2,9,5>>
      [] k \in {"uint", "uint64"} -> <<1,8,4,4,6,7,4,4,0,7,3,7,0,9,5,5,1,6,1,5>>
      [] k = "int8"   -> <<1,2,7>>
      [] k = "int16"  -> <<3,2,7,6,7>>
      [] k = "int32"  -> <<2,1,4,7,4,8,3,6,4,7>>
      [] k \in {"int", "int64"} -> <<9,2,2,3,3,7,2,0,3,6,8,5,4,7,7,5,8,0,7>>

MinMagOf(k) ==
    CASE k = "int8"   -> <<1,2,8>>
      [] k = "int16"  -> <<3,2,7,6,8>>
      [] k = "int32"  -> <<2,1,4,7,4,8,3,6,4,8>>
      [] k \in {"int", "int64"} -> <<9,2,2,3,3,7,2,0,3,6,8,5,4,7,7,5,8,0,8>>
      [] OTHER        -> <<0>>

\* the text denotes a number of kind k
InRange(k, text) ==
    /\ IsNumber(text, k \in IntKinds)
    /\ IF TextNeg(text, k \in IntKinds)
       THEN MagLeq(TextMag(text, k \in IntKinds), MinMagOf(k))
       ELSE MagLeq(TextMag(text, k \in IntKinds), MaxOf(k))

\* C8: a segment captured into an integer field is bound exactly when its
\* text is a decimal number within the range of the field's width (in
\* particular the least and the greatest value of every width), and the
\* field then holds that number; any other text disqualifies the matcher,
\* so that the request is not found and nothing is bound.  "255" binds an
\* 8-bit unsigned field to 255, "256" does not, and "256" binds a 16-bit one.
C8_IntegerBounds ==
    \A w \in DOMAIN resp : (CaseServed(w) /\ pin.kind # "string") =>
        /\ resp[w].status \in Served <=> InRange(pin.kind, pin.text)
        /\ resp[w].status \notin Served
              => resp[w].status = "404" /\ resp[w].mdIf = Nil
        /\ resp[w].status \in Served
              => BoundV(w) = IntVal(TextNeg(pin.text, pin.kind \in IntKinds),
                                    TextMag(pin.text, pin.kind \in IntKinds))
        /\ (pin.kind = "uint8" /\ pin.text = <<"2","5","5">>)
              => resp[w].status \in Served /\ BoundV(w) = IntVal(FALSE, <<2,5,5>>)
        /\ (pin.kind = "uint8" /\ pin.text = <<"2","5","6">>)
              => resp[w].status = "404"
        /\ (pin.kind = "uint16" /\ pin.text = <<"2","5","6">>)
              => resp[w].status \in Served /\ BoundV(w) = IntVal(FALSE, <<2,5,6>>)
        /\ pin.text = Txt(MaxOf(pin.kind))
              => resp[w].status \in Served /\ BoundV(w) = IntVal(FALSE, MaxOf(pin.kind))
        /\ (pin.kind \in IntKinds /\ pin.text = <<"-">> \o Txt(MinMagOf(pin.kind)))
              => resp[w].status \in Served /\ BoundV(w) = IntVal(TRUE, MinMagOf(pin.kind))

\* "-128" was bound to an 8-bit signed field
C8_Witness ==
    \E w \in DOMAIN resp :
        /\ CaseServed(w)
        /\ pin.kind = "int8"
        /\ pin.text = <<"-","1","2","8">>
        /\ resp[w].status = "ok"
        /\ BoundV(w) = IntVal(TRUE, <<1,2,8>>)

\* worker w's request was handed metadata
Bound(w) == resp[w].status \in Served /\ resp[w].mdIf # Nil

\* the objects the trie refers to as templates
Templates ==
    {nodes[n].metadataRaw.obj : n \in DOMAIN nodes} \cup
    {nodes[n].metadata : n \in DOMAIN nodes}

\* C10: the metadata of a request is storage of its own, apart from the
\* template and from the metadata of any other request; two requests bound
\* with the same patches against the same template hold the same values
\* until one is written to; a store into one instance changes neither the
\* other instance nor the template, and the template still holds what it
\* held when the request copied it.
C10_OwnStorage ==
    /\ \A w \in DOMAIN resp : Bound(w) =>
          /\ resp[w].mdIf.obj \in DOMAIN heap
          /\ resp[w].mdIf.obj \notin Templates
          /\ \A v \in DOMAIN resp \ {w} :
                Bound(v) => resp[v].mdIf.obj # resp[w].mdIf.obj
          /\ ~resp[w].written
                => heap[resp[w].mdIf.obj] = ApplyPatches(resp[w].tmpl, resp[w].patches)
          /\ nodes[resp[w].node].route = resp[w].route
                => SliceBytes(heap, nodes[resp[w].node].metadataRaw) = resp[w].tmpl
    /\ \A w, v \in DOMAIN resp :
          (/\ Bound(w) /\ Bound(v)
           /\ ~resp[w].written /\ ~resp[v].written
           /\ resp[w].tmpl = resp[v].tmpl
           /\ resp[w].patches = resp[v].patches)
          => heap[resp[w].mdIf.obj] = heap[resp[v].mdIf.obj]

\* two requests for "/b" were bound against one template; the handler of
\* the first stored into its metadata, and the second still reads x = "b"
C10_Witness ==
    /\ Bound(1) /\ Bound(2)
    /\ resp[1].path = <<"/","b">> /\ resp[2].path = <<"/","b">>
    /\ resp[1].route = resp[2].route
    /\ resp[1].patches # <<>>
    /\ resp[1].written /\ ~resp[2].written
    /\ heap[resp[1].mdIf.obj] # heap[resp[2].mdIf.obj]
    /\ ReadField(heap[resp[2].mdIf.obj], 0, "string") = StrVal(<<"b">>)

\* C11: the fields of a request's metadata that no variable of the route
\* names hold the values the registered object had when HandleFunc was
\* called, whatever the caller stored into the object afterwards.
C11_Snapshot ==
    \A w \in DOMAIN resp : (Bound(w) /\ ~resp[w].written) =>
        \A i \in 1..Len(resp[w].mdIf.type) :
            VarPositions(PatSegs(resp[w].route.path), resp[w].mdIf.type[i]) = {}
            => ReadField(heap[resp[w].mdIf.obj],
                         FieldOffset(resp[w].mdIf.type, i), resp[w].mdIf.type[i].Kind)
                 = PresetVal(resp[w].mdIf.type[i].Kind, regs[resp[w].route.reg].preset)

\* the number of occurrences of character c in s
CountOf(s, c) == Cardinality({i \in 1..Len(s) : s[i] = c})

\* a segment with no bracket, or with one "{" and one "}" after it
WellBracketed(seg) ==
    \/ CountOf(seg, "{") = 0 /\ CountOf(seg, "}") = 0
    \/ /\ CountOf(seg, "{") = 1 /\ CountOf(seg, "}") = 1
       /\ IndexOf(seg, "{") < IndexOf(seg, "}")

\* C12: a HandleFunc call whose pattern has a segment with more than one
\* bracketed variable, an unbalanced bracket or nested brackets ends fatally.
C12_BracketsRejected ==
    \A k \in 1..Len(regs) :
        (\E j \in 1..Len(PatSegs(regs[k].path)) : ~WellBracketed(PatSegs(regs[k].path)[j]))
        => ~regs[k].ok

\* the name under which a field takes a path variable: its tag, else its
\* name in lower case; a field tagged "-" takes none
NameOfField(f) == IF f.Tag # <<>> THEN f.Tag ELSE ToLower(f.Name)

\* every variable of pattern P names a field of the metadata type T
VarsResolve(P, T) ==
    \A j \in 1..Len(P) : VarOf(P[j]).isVar =>
        /\ T # NilType
        /\ \E i \in 1..Len(T) :
              T[i].Tag # <<"-">> /\ NameOfField(T[i]) = VarOf(P[j]).label

RECURSIVE TrieOf(_)
TrieOf(rs) ==
    IF rs = <<>> THEN [n \in {Root} |-> NewMux]
    ELSE mkRoute(TrieOf(SubSeq(rs, 1, Len(rs) - 1)),
                 rs[Len(rs)].path,
                 IF rs[Len(rs)].type = NilType THEN Nil
                 ELSE [obj |-> <<"md", Len(rs)>>, type |-> rs[Len(rs)].type],
                 MethodHandlers(Len(rs), rs[Len(rs)].methods),
                 Len(rs)).t

\* C14: while a request walks the trie no registration is inside mkRoute
\* and the trie is the one the walk began on; the trie a walk has seen is
\* the trie left by the first k HandleFunc calls, for some k, never one
\* with a part of a registration in it; and what the walk returns is what
\* matchDir returns on that trie.
C14_WalkSeesWholeRegistrations ==
    \A w \in DOMAIN resp : run.walk[w].active =>
        /\ run.walk[w].phase = "walking" =>
              /\ w \in run.mu.r
              /\ ~run.mu.w
              /\ ~run.reg.active
              /\ nodes = run.walk[w].seen
        /\ \E k \in 0..Len(regs) : run.walk[w].seen = TrieOf(SubSeq(regs, 1, k))
        /\ run.walk[w].phase = "matched" =>
              run.walk[w].r
                = matchDir(run.walk[w].seen, Root, SegsOf(run.walk[w].path))

\* a walk of "/a/b" has returned no match, on the trie of before the
\* registration of "/a/b" that is now under way, past its first segment
C14_Witness ==
    \E w \in DOMAIN resp :
        /\ run.walk[w].active
        /\ run.walk[w].phase = "matched"
        /\ run.walk[w].path = <<"/","a","/","b">>
        /\ run.walk[w].r.match = NilNode
        /\ run.reg.active
        /\ run.reg.path = <<"/","a","/","b">>
        /\ Len(run.reg.dirs) = 1
        /\ nodes # run.walk[w].seen

\* C15: no node holds two matchers with the same prefix, suffix, kind and
\* size; and after "/{x}" and then "/{x}/b" the root has one matcher, whose
\* child is the node of "/{x}" and the parent of the node of "/{x}/b".
C15_MatcherReused ==
    /\ \A n \in DOMAIN nodes :
          \A i, j \in 1..Len(nodes[n].matchers) :
             (/\ nodes[n].matchers[i].Prefix = nodes[n].matchers[j].Prefix
              /\ nodes[n].matchers[i].Suffix = nodes[n].matchers[j].Suffix
              /\ nodes[n].matchers[i].FieldParser.Type
                    = nodes[n].matchers[j].FieldParser.Type
              /\ nodes[n].matchers[i].Size = nodes[n].matchers[j].Size)
             => i = j
    /\ (/\ ~fatal /\ nreg = 2
         /\ regs[1].path = <<"/","{","x","}">>
         /\ regs[2].path = <<"/","{","x","}","/","b">>)
        => /\ Len(nodes[Root].matchers) = 1
           /\ nodes[PatChild(Root, 1)].route # Nil
           /\ nodes[PatChild(Root, 1)].route.reg = 1
           /\ nodes[PatChild(Root, 1)].m = {<<"b">>}
           /\ nodes[LitChild(PatChild(Root, 1), <<"b">>)].route # Nil
           /\ nodes[LitChild(PatChild(Root, 1), <<"b">>)].route.reg = 2

\* "/{x}" and then "/{x}/b" were registered, and the root has one matcher
C15_Witness ==
    /\ ~fatal /\ nreg = 2
    /\ regs[1].path = <<"/","{","x","}">>
    /\ regs[2].path = <<"/","{","x","}","/","b">>
    /\ Len(nodes[Root].matchers) = 1
    /\ DOMAIN nodes = {Root, PatChild(Root, 1), LitChild(PatChild(Root, 1), <<"b">>)}

\* a pattern of one segment, a variable
OneVar(path) == Len(PatSegs(path)) = 1 /\ VarOf(PatSegs(path)[1]).isVar

\* C19: when a variable segment is registered under a parent whose matchers
\* are all different from it, the parent has one matcher more afterwards,
\* the route registered before is still at its node with its handlers, and
\* the new route is at a node of its own.
C19_MatcherAppended ==
    \A i, j \in 1..Len(regs) :
        (/\ ~fatal /\ i < j /\ nreg = 2
         /\ OneVar(regs[i].path) /\ OneVar(regs[j].path)
         /\ PatSegs(regs[i].path) # PatSegs(regs[j].path))
        => /\ Len(nodes[Root].matchers) = 2
           /\ nodes[PatChild(Root, 1)].route.reg = i
           /\ nodes[PatChild(Root, 1)].methodHandlers = MethodHandlers(i, regs[i].methods)
           /\ PatChild(Root, 2) \in DOMAIN nodes
           /\ nodes[PatChild(Root, 2)].route.reg = j

\* C20: when the segment of a request qualifies for the variables of two
\* routes registered under one parent, the request is resolved to the
\* route registered first.
C20_RegistrationOrder ==
    \A w \in DOMAIN resp : Fresh(w) =>
        \A i, j \in 1..Len(regs) :
            (/\ ~fatal /\ i < j /\ nreg = 2
             /\ OneVar(regs[i].path) /\ OneVar(regs[j].path)
             /\ PatSegs(regs[i].path) # PatSegs(regs[j].path)
             /\ Len(SegsOf(resp[w].path)) = 1
             /\ VarMatches(regs[i].type, PatSegs(regs[i].path)[1], SegsOf(resp[w].path)[1])
             /\ VarMatches(regs[j].type, PatSegs(regs[j].path)[1], SegsOf(resp[w].path)[1]))
            => /\ resp[w].status \in Served
               /\ resp[w].route.reg = i
               /\ resp[w].mh.Func = <<i, "GET">>

\* C16: a request with method M resolved to a route that has a handler for
\* M calls the handler that the route was registered with for M, once, and
\* no other handler.
C16_MethodHandler ==
    \A w \in DOMAIN resp :
        (Fresh(w) /\ resp[w].route # Nil
                  /\ resp[w].method \in regs[resp[w].route.reg].methods) =>
        /\ resp[w].mh = MethodHandlers(resp[w].route.reg,
                                        regs[resp[w].route.reg].methods)[resp[w].method]
        /\ resp[w].mh.Method = resp[w].method
        /\ resp[w].mh.Func = <<resp[w].route.reg, resp[w].method>>
        /\ resp[w].status = "ok" =>
              /\ resp[w].funcCalled
              /\ Cardinality({k \in 1..Len(resp[w].calls) : resp[w].calls[k] = "Func"}) = 1
        /\ resp[w].status # "ok" => ~resp[w].funcCalled

\* a POST for "/s", registered with a handler for GET and one for POST, has
\* called the handler for POST
C16_Witness ==
    \E w \in DOMAIN resp :
        /\ Fresh(w)
        /\ resp[w].path = <<"/","s">>
        /\ resp[w].method = "POST"
        /\ resp[w].route # Nil
        /\ regs[resp[w].route.reg].methods = {"GET", "POST"}
        /\ resp[w].status = "ok"
        /\ resp[w].mh.Func = <<resp[w].route.reg, "POST">>

\* the largest element of a non-empty set of numbers
MaxOfSet(S) == CHOOSE x \in S : \A y \in S : y <= x

\* C17: in the metadata bound for a request resolved to the route of a
\* pattern with as many segments as the path, the field of a variable holds
\* the text captured at the deepest segment that names the variable.
C17_DeepestWins ==
    \A w \in DOMAIN resp :
        (/\ resp[w].status \in Served /\ resp[w].mdIf # Nil /\ ~resp[w].written
         /\ Len(PatSegs(resp[w].route.path)) = Len(SegsOf(resp[w].path))) =>
        \A i \in 1..Len(resp[w].mdIf.type) :
            VarPositions(PatSegs(resp[w].route.path), resp[w].mdIf.type[i]) # {} =>
            \E c \in CapturesOf(
                        SegsOf(resp[w].path)[
                            MaxOfSet(VarPositions(PatSegs(resp[w].route.path),
                                                  resp[w].mdIf.type[i]))],
                        VarOf(PatSegs(resp[w].route.path)[
                            MaxOfSet(VarPositions(PatSegs(resp[w].route.path),
                                                  resp[w].mdIf.type[i]))]).prefix,
                        VarOf(PatSegs(resp[w].route.path)[
                            MaxOfSet(VarPositions(PatSegs(resp[w].route.path),
                                                  resp[w].mdIf.type[i]))]).suffix) :
                ReadField(heap[resp[w].mdIf.obj],
                          FieldOffset(resp[w].mdIf.type, i), resp[w].mdIf.type[i].Kind)
                  = ApplyFn(KindFn(resp[w].mdIf.type[i].Kind), c).val

\* "/ca/bb" was resolved to "/{x}a/b{x}" with the patch of "c" ahead of the
\* patch of "b", and the handler was handed X = "b"
C17_Witness ==
    \E w \in DOMAIN resp :
        /\ resp[w].status = "ok" /\ resp[w].mdIf # Nil
        /\ resp[w].path = <<"/","c","a","/","b","b">>
        /\ resp[w].route.path = <<"/","{","x","}","a","/","b","{","x","}">>
        /\ Len(resp[w].patches) = 2
        /\ resp[w].patches[1].Source = StrVal(<<"c">>)
        /\ resp[w].patches[2].Source = StrVal(<<"b">>)
        /\ resp[w].patches[1].Offset = resp[w].patches[2].Offset
        /\ ReadField(heap[resp[w].mdIf.obj], FieldOffset(MD, 1), "string") = StrVal(<<"b">>)

\* C18: with a Before hook set, a request that has a route and a handler
\* for its method calls the hook first, with the bound metadata and the
\* Data of the selected handler, and the handler after it; when the hook
\* returns an error the handler is not called and the error is rendered;
\* a request answered 404 or 405 calls no hook.
C18_BeforeHook ==
    \A w \in DOMAIN resp : (Fresh(w) /\ Before) =>
        /\ resp[w].status \in {"404", "405"} => resp[w].calls = <<>>
        /\ resp[w].status \in Served =>
              /\ resp[w].mh = MethodHandlerOf(nodes[resp[w].node], resp[w].method)
              /\ resp[w].calls # <<>> /\ resp[w].calls[1] = "Before"
              /\ resp[w].beforeArgs = [md |-> resp[w].mdIf, data |-> resp[w].mh.Data]
              /\ resp[w].mh.Data = <<"data", resp[w].route.reg>>
              /\ resp[w].mdIf = Nil <=> nodes[resp[w].node].metadata = NilObj
        /\ resp[w].status = "ok" => resp[w].calls = <<"Before", "Func">>
        /\ resp[w].status = "beforeErr" =>
              resp[w].calls = <<"Before">> /\ ~resp[w].funcCalled

\* the hook of a request for a route with metadata returned an error
C18_Witness ==
    \E w \in DOMAIN resp :
        /\ Fresh(w) /\ Before
        /\ resp[w].status = "beforeErr"
        /\ resp[w].mdIf # Nil
        /\ resp[w].beforeArgs = [md |-> resp[w].mdIf, data |-> <<"data", resp[w].route.reg>>]
        /\ resp[w].calls = <<"Before">>

\* the patches of the matcher edges on the way from the root to node n, from
\* edge k on, for the segments segs of a request
RECURSIVE PathPatches(_, _, _, _)
PathPatches(t, n, segs, k) ==
    IF k > Len(n) THEN <<>>
    ELSE IF n[k][1] # "p" THEN PathPatches(t, n, segs, k + 1)
    ELSE << [Offset |-> t[SubSeq(n, 1, k - 1)].matchers[n[k][2]].FieldParser.Offset,
             Source |-> ApplyFn(t[SubSeq(n, 1, k - 1)].matchers[n[k][2]].FieldParser.Fn,
                                Captured(segs[k],
                                         t[SubSeq(n, 1, k - 1)].matchers[n[k][2]].Prefix,
                                         t[SubSeq(n, 1, k - 1)].matchers[n[k][2]].Suffix)).val,
             Size   |-> t[SubSeq(n, 1, k - 1)].matchers[n[k][2]].FieldParser.Size] >>
         \o PathPatches(t, n, segs, k + 1)

\* C21: the patches matchDir returns with a node, exact match or fallback,
\* are the patches of the matcher edges between the root and that node, one
\* each, from the root down, and nothing else.
C21_PatchesOfPath ==
    \A w \in DOMAIN resp : (Fresh(w) /\ resp[w].node # NilNode) =>
        /\ resp[w].patches = matchDir(nodes, Root, SegsOf(resp[w].path)).patches
        /\ resp[w].patches = PathPatches(nodes, resp[w].node, SegsOf(resp[w].path), 1)

\* "/c/d" fell back to the root after the matcher of {x} had captured "c"
\* and the node below it had nothing for "d": the patch of "c" is not
\* returned
C21_Witness ==
    \E w \in DOMAIN resp :
        /\ Fresh(w)
        /\ resp[w].path = <<"/","c","/","d">>
        /\ resp[w].match = NilNode
        /\ resp[w].fallback = Root
        /\ resp[w].patches = <<>>
        /\ Len(nodes[Root].matchers) = 1
        /\ Qualifies(<<"c">>, nodes[Root].matchers[1].Prefix, nodes[Root].matchers[1].Suffix)
        /\ ~nodes[PatChild(Root, 1)].servesDir

\* the fallback found below the i-th matcher of node n for the segments
\* segs, NilNode when the matcher does not take the first segment
MatcherFallback(n, i, segs) ==
    IF /\ Qualifies(Head(segs), nodes[n].matchers[i].Prefix, nodes[n].matchers[i].Suffix)
       /\ ~ApplyFn(nodes[n].matchers[i].FieldParser.Fn,
                   Captured(Head(segs), nodes[n].matchers[i].Prefix,
                            nodes[n].matchers[i].Suffix)).err
    THEN matchDir(nodes, PatChild(n, i), Tail(segs)).fallback
    ELSE NilNode

\* the fallback found below the literal child of node n for the segments segs
LiteralFallback(n, segs) ==
    IF Head(segs) \in nodes[n].m
    THEN matchDir(nodes, LitChild(n, Head(segs)), Tail(segs)).fallback
    ELSE NilNode

\* C27: where matchDir finds no exact match from a node, its fallback is
\* the one found below the literal child if there is one, else the one
\* found below the first matcher that yields one, else the node itself if
\* it is a directory root, else none; so a directory root below a
\* directory root is preferred to it.
C27_DeepestFallback ==
    \A n \in DOMAIN nodes : \A w \in DOMAIN resp :
        \A segs \in Suffixes(SegsOf(resp[w].path)) :
            (segs # <<>> /\ matchDir(nodes, n, segs).match = NilNode) =>
            matchDir(nodes, n, segs).fallback =
                IF LiteralFallback(n, segs) # NilNode THEN LiteralFallback(n, segs)
                ELSE IF \E i \in 1..Len(nodes[n].matchers) :
                            MatcherFallback(n, i, segs) # NilNode
                THEN MatcherFallback(n,
                        CHOOSE i \in 1..Len(nodes[n].matchers) :
                            /\ MatcherFallback(n, i, segs) # NilNode
                            /\ \A j \in 1..(i - 1) : MatcherFallback(n, j, segs) = NilNode,
                        segs)
                ELSE IF nodes[n].servesDir THEN n
                ELSE NilNode

\* "/a/" and "/a/b/" are directory roots and "/a/b/c" fell back to the node
\* of "/a/b/"
C27_Witness ==
    \E w \in DOMAIN resp :
        /\ Fresh(w)
        /\ resp[w].path = <<"/","a","/","b","/","c">>
        /\ resp[w].match = NilNode
        /\ LitChild(LitChild(Root, <<"a">>), <<"b">>) \in DOMAIN nodes
        /\ nodes[LitChild(Root, <<"a">>)].servesDir
        /\ nodes[LitChild(LitChild(Root, <<"a">>), <<"b">>)].servesDir
        /\ resp[w].fallback = LitChild(LitChild(Root, <<"a">>), <<"b">>)
        /\ resp[w].status = "ok"

\* C26: a node that matchDir returns as the exact match is the end of a
\* registered path, so a request for a path that was not registered and
\* has no directory above it is answered 404, never 405.
C26_ExactMatchIsRoute ==
    \A w \in DOMAIN resp : Fresh(w) =>
        /\ resp[w].match # NilNode => nodes[resp[w].match].route # Nil
        /\ (/\ \A k \in 1..Len(regs) : PatSegs(regs[k].path) # SegsOf(resp[w].path)
            /\ \A k \in 1..Len(regs) : AllLiteral(regs[k].path)
            /\ \A n \in DOMAIN nodes : ~nodes[n].servesDir)
           => resp[w].status = "404"

\* C28: a path with and without a trailing slash end at the same node; a
\* node is a directory root exactly when the registration that ended at it
\* last had a trailing slash; after "/a/" and then "/a" no request falls
\* back to the node of "a".
C28_DirectoryFlag ==
    /\ \A n \in DOMAIN nodes :
          nodes[n].servesDir
            <=> (nodes[n].route # Nil
                 /\ nodes[n].route.path[Len(nodes[n].route.path)] = "/")
    /\ \A i, j \in 1..Len(regs) :
          (/\ ~fatal /\ i < j /\ AllLiteral(regs[i].path) /\ AllLiteral(regs[j].path)
           /\ regs[i].path = regs[j].path \o <<"/">>
           /\ \A k \in (j + 1)..Len(regs) : PatSegs(regs[k].path) # PatSegs(regs[j].path))
          => \E n \in DOMAIN nodes :
                /\ nodes[n].route # Nil
                /\ nodes[n].route.reg = j
                /\ \A k \in 1..Len(n) : n[k] = <<"m", PatSegs(regs[i].path)[k]>>
                /\ Len(n) = Len(PatSegs(regs[i].path))
                /\ ~nodes[n].servesDir
                /\ \A w \in DOMAIN resp : Fresh(w) => resp[w].fallback # n

\* "/a/" was registered and then "/a"; "/a/c" is answered 404
C28_Witness ==
    \E w \in DOMAIN resp :
        /\ Fresh(w) /\ nreg = 2
        /\ regs[1].path = <<"/","a","/">>
        /\ regs[2].path = <<"/","a">>
        /\ DOMAIN nodes = {Root, LitChild(Root, <<"a">>)}
        /\ ~nodes[LitChild(Root, <<"a">>)].servesDir
        /\ resp[w].path = <<"/","a","/","c">>
        /\ resp[w].status = "404"

\* C22: a request resolved to a node is served by the registration that
\* ended at that node last, which for a path registered several times is
\* the most recent one: by its handlers and no others (a method it has no
\* handler for is answered 405 even if an earlier registration had one)
\* and with its template, or with no metadata if it has none.
C22_LastRegistrationServes ==
    \A w \in DOMAIN resp : (Fresh(w) /\ resp[w].route # Nil) =>
        /\ \A k \in (resp[w].route.reg + 1)..Len(regs) :
              regs[k].path # resp[w].route.path
        /\ regs[resp[w].route.reg].path = resp[w].route.path
        /\ MethodsOf(resp[w].node) = regs[resp[w].route.reg].methods
        /\ resp[w].status = "405" <=> resp[w].method \notin regs[resp[w].route.reg].methods
        /\ resp[w].status \in Served =>
              /\ resp[w].mh.Func = <<resp[w].route.reg, resp[w].method>>
              /\ resp[w].mdIf = Nil <=> regs[resp[w].route.reg].type = NilType
              /\ resp[w].mdIf # Nil =>
                    /\ resp[w].mdIf.type = regs[resp[w].route.reg].type
                    /\ resp[w].tmpl = CallerBytes(regs[resp[w].route.reg].type,
                                                   regs[resp[w].route.reg].preset)

\* "/s" was registered for GET and POST and then again for GET only: a
\* POST for "/s" is answered 405
C22_Witness ==
    \E w \in DOMAIN resp :
        /\ Fresh(w) /\ nreg = 2
        /\ regs[1].path = <<"/","s">> /\ regs[1].methods = {"GET", "POST"}
        /\ regs[2].path = <<"/","s">> /\ regs[2].methods = {"GET"}
        /\ resp[w].path = <<"/","s">>
        /\ resp[w].method = "POST"
        /\ resp[w].node = LitChild(Root, <<"s">>)
        /\ resp[w].status = "405"

\* a pattern with a variable segment
HasVar(path) == \E k \in 1..Len(path) : path[k] = "{"

\* C23: a registration with variables whose metadata type was used by an
\* earlier registration with variables takes the descriptor table from the
\* cache and derives nothing.
C23_TableCached ==
    \A i, j \in 1..Len(regs) :
        (/\ i < j /\ regs[i].ok /\ regs[j].ok
         /\ HasVar(regs[i].path) /\ HasVar(regs[j].path)
         /\ regs[i].type = regs[j].type)
        => regs[j].derived = 0

\* C24: every patch applied to the buffer of a request ends inside it: its
\* offset plus its size is at most the size of the template of the node
\* the request was resolved to.
C24_PatchesInBounds ==
    \A w \in DOMAIN resp :
        (Fresh(w) /\ resp[w].node # NilNode /\ resp[w].mh # Nil
                  /\ nodes[resp[w].node].metadata # NilObj) =>
        \A i \in 1..Len(resp[w].patches) :
            resp[w].patches[i].Offset + resp[w].patches[i].Size
                <= nodes[resp[w].node].metadataRaw.len

\* C29: a request whose path does not begin with "/", the empty path
\* included, is answered 404: ServeHTTP returns without having taken the
\* lock and without having called the hook or a handler.
C29_NoSlashNotFound ==
    \A w \in DOMAIN resp :
        (/\ resp[w].status # "none"
         /\ \/ resp[w].path = <<>>
            \/ resp[w].path[1] # "/")
        => /\ resp[w].status = "404"
           /\ ~resp[w].locked
           /\ resp[w].calls = <<>>

\* C25: the handler a request calls, and the template and the type of the
\* metadata it is called with, were stored into the node by one and the
\* same registration.
C25_OneRegistration ==
    \A w \in DOMAIN resp :
        (run.walk[w].active /\ run.walk[w].phase = "handler") =>
        /\ run.walk[w].route.reg = run.walk[w].mdReg
        /\ resp[w].mh.Func[1] = run.walk[w].mdReg
        /\ resp[w].mdIf # Nil => resp[w].mdIf.type = regs[resp[w].mh.Func[1]].type

\* C30: a request holds the read lock only while it walks the trie: not
\* after it has returned, and not while the Before hook or the method
\* handler runs, so that a registration made meanwhile is not kept
\* waiting by the request.
C30_NoLockInUserCode ==
    /\ run.mu.r = {w \in DOMAIN resp : run.walk[w].active /\ run.walk[w].phase = "walking"}
    /\ \A w \in DOMAIN resp :
          (run.walk[w].active /\ run.walk[w].phase = "handler") =>
          /\ w \notin run.mu.r
          /\ \A v \in DOMAIN resp \ {w} : ~run.walk[v].active
                => (~run.mu.w => CanLock(run.mu))

\* the handler of a request is running while a registration holds the
\* exclusive lock and is about to attach its route
C30_Witness ==
    \E w \in DOMAIN resp :
        /\ run.walk[w].active /\ run.walk[w].phase = "handler"
        /\ resp[w].status = "ok"
        /\ resp[w].funcCalled
        /\ run.reg.active
        /\ run.reg.dirs = <<>>
        /\ run.mu.w
        /\ run.mu.r = {}

=============================================================================
